---- MODULE Spec2Model ----
(***************************************************************************)
(* State-machine model of the adaptive learning core:                      *)
(*   core/algorithm.py          AdaptiveLearningAlgorithm                  *)
(*   core/scoring.py            ScoringComponents                          *)
(*   core/knowledge_tracing.py  BayesianKnowledgeTracing                   *)
(*   config/settings.py         ALGORITHM_CONFIG                           *)
(*                                                                         *)
(* Python floats are modelled as fixed-point integers: the float x is the  *)
(* integer x * ONE, products and quotients are rescaled (Mul, Div) and     *)
(* rounded towards minus infinity.  exp, log and sqrt are computed in this *)
(* arithmetic (ExpNeg, Ln, Sqrt).  None is the empty tuple and a given     *)
(* optional argument v is the one-element tuple <<v>>.                     *)
(***************************************************************************)
EXTENDS Integers, Sequences, FiniteSets, TLC

VARIABLES
    pc,       \* "new": no engine yet, "ready": constructed, "failed": __init__ raised
    engine,   \* the AdaptiveLearningAlgorithm instance's fields
    student,  \* the StudentState the caller passes to select and apply
    catalog,  \* the Content objects the caller holds, by id
    ret,      \* the last call: its arguments and what it returned or raised
    trace,    \* history: every value the student's two bounded histories ever held,
              \* and the number of update_student_state calls
    threads   \* the calls in flight when two threads share the engine and the
              \* student: each thread's position and local variables, and the
              \* callers' lock; <<>> when the calls are made one after another

vars == <<pc, engine, student, catalog, ret, trace, threads>>

----------------------------------------------------------------------------
(* Bounds of the model *)

\* update_student_state calls per behaviour of Spec
MaxSteps == 1
\* update_student_state calls per behaviour of SpecStudent
MaxDeep == 5
\* select_optimal_content is called while time_step is below it
MaxTime == 1
\* longest candidate list passed to select_optimal_content
MaxCand == 2
\* the prior masteries of SpecMastery are the multiples of 1/MaxPriors in [0,1]
MaxPriors == 40
\* the greatest total_interactions, interaction_count and time_step that
\* exploration_bonus is given in SpecBonus
MaxTotal == 6
MaxCount == 3
MaxTick == 3
MaxLearn == 5

----------------------------------------------------------------------------
(* Fixed-point arithmetic *)

\* the float 1.0
ONE == 10000

Mul(a, b) == (a * b) \div ONE

Div(a, b) == (a * ONE) \div b

Abs(a) == IF a < 0 THEN -a ELSE a

Min(a, b) == IF a <= b THEN a ELSE b

\* np.clip(x, lo, hi)
Clip(x, lo, hi) == IF x < lo THEN lo ELSE IF x > hi THEN hi ELSE x

RECURSIVE SumOver(_, _)
\* sum(f[k] for k in S)
SumOver(f, S) ==
    IF S = {} THEN 0
    ELSE LET k == CHOOSE x \in S : TRUE
         IN  f[k] + SumOver(f, S \ {k})

\* sum(d.values())
SumValues(f) == SumOver(f, DOMAIN f)

\* d.get(k, default)
Get(f, k, default) == IF k \in DOMAIN f THEN f[k] ELSE default

\* the float exp(-1.0)
EXP_M1 == 3679

\* the float log(2.0)
LN2 == 6931

RECURSIVE ExpNegFrac(_, _, _, _)
\* Taylor series of exp(-r) for 0 <= r < 1: term is the k-1'th term's magnitude
ExpNegFrac(r, k, term, acc) ==
    IF term = 0 \/ k > 12 THEN acc
    ELSE LET t == (term * r) \div (ONE * k)
         IN  ExpNegFrac(r, k + 1, t, IF k % 2 = 1 THEN acc - t ELSE acc + t)

RECURSIVE ExpNegInt(_, _)
\* acc * exp(-q) for the integer q >= 0
ExpNegInt(q, acc) ==
    IF q = 0 \/ acc = 0 THEN acc ELSE ExpNegInt(q - 1, Mul(acc, EXP_M1))

\* np.exp(-x) for x >= 0
ExpNeg(x) == ExpNegInt(x \div ONE, Clip(ExpNegFrac(x % ONE, 1, ONE, ONE), 0, ONE))

RECURSIVE LnReduce(_, _)
\* <<k, r>> with x = 2^k * r and 1 <= r < 2
LnReduce(x, k) == IF x >= 2 * ONE THEN LnReduce(x \div 2, k + 1) ELSE <<k, x>>

\* 2*atanh(z) = 2*(z + z^3/3 + z^5/5 + z^7/7) for 0 <= z < 1/3, with z2 = z*z
Atanh2(z, z2) ==
    2 * (z + Mul(z, z2) \div 3 + Mul(Mul(z, z2), z2) \div 5
           + Mul(Mul(Mul(z, z2), z2), z2) \div 7)

\* ln(2^k * r) = k*ln 2 + 2*atanh((r-1)/(r+1))
LnOf(k, r) == k * LN2 + Atanh2(Div(r - ONE, r + ONE), Mul(Div(r - ONE, r + ONE),
                                                          Div(r - ONE, r + ONE)))

\* np.log(n) for the integer n >= 1
Ln(n) == LET kr == LnReduce(n * ONE, 0) IN LnOf(kr[1], kr[2])

RECURSIVE ISqrt(_, _, _)
\* the largest r in lo..hi with r*r <= v
ISqrt(v, lo, hi) ==
    IF lo >= hi THEN lo
    ELSE LET mid == (lo + hi + 1) \div 2
         IN  IF mid * mid <= v THEN ISqrt(v, mid, hi) ELSE ISqrt(v, lo, mid - 1)

\* np.sqrt(x) for 0 <= x < 20.0
Sqrt(x) == ISqrt(x * ONE, 0, 46340)

----------------------------------------------------------------------------
(* config/settings.py *)

ComponentNames ==
    {"learning_style", "difficulty", "cognitive_load", "knowledge_gap", "engagement"}

ALGORITHM_CONFIG ==
    [weights |-> [learning_style |-> 1500, difficulty |-> 2500,
                  cognitive_load |-> 2000, knowledge_gap |-> 2500,
                  engagement |-> 1500],
     zpd_delta |-> 2000,
     zpd_sigma |-> 1500,
     cl_optimal |-> 7000,
     cl_max |-> 9000,
     beta_0 |-> 10000,
     mastery_threshold |-> 7000]

\* BayesianKnowledgeTracing.__init__ defaults
p_learn == 3000
p_slip == 1000
p_guess == 2000

----------------------------------------------------------------------------
(* core/knowledge_tracing.py *)

\* a faulty update that leaves out the learning step
update_mastery_posterior(current_mastery, correct) ==
    LET numerator ==
            IF correct THEN Mul(ONE - p_slip, current_mastery)
            ELSE Mul(p_slip, current_mastery)
        denominator ==
            IF correct THEN numerator + Mul(p_guess, ONE - current_mastery)
            ELSE numerator + Mul(ONE - p_guess, ONE - current_mastery)
    IN  Clip(IF denominator > 0 THEN Div(numerator, denominator) ELSE current_mastery,
             0, ONE)

update_mastery(current_mastery, correct) ==
    LET numerator ==
            IF correct THEN Mul(ONE - p_slip, current_mastery)
            ELSE Mul(p_slip, current_mastery)
        denominator ==
            IF correct THEN numerator + Mul(p_guess, ONE - current_mastery)
            ELSE numerator + Mul(ONE - p_guess, ONE - current_mastery)
        p_mastery_given_obs ==
            IF denominator > 0 THEN Div(numerator, denominator) ELSE current_mastery
        updated_mastery ==
            p_mastery_given_obs + Mul(ONE - p_mastery_given_obs, p_learn)
    IN  Clip(updated_mastery, 0, ONE)

\* a faulty estimate that divides by the number of topics, not by their weight
estimate_knowledge_level_unweighted(topic_masteries, topic_weights) ==
    IF DOMAIN topic_masteries = {} THEN 0
    ELSE LET weighted_sum ==
                 SumOver([t \in DOMAIN topic_weights |->
                             Mul(Get(topic_masteries, t, 0), topic_weights[t])],
                         DOMAIN topic_weights)
             total_weight == Cardinality(DOMAIN topic_weights) * ONE
         IN  IF total_weight > 0 THEN Div(weighted_sum, total_weight) ELSE 0

estimate_knowledge_level(topic_masteries, topic_weights) ==
    IF DOMAIN topic_masteries = {} THEN 0
    ELSE LET weighted_sum ==
                 SumOver([t \in DOMAIN topic_weights |->
                             Mul(Get(topic_masteries, t, 0), topic_weights[t])],
                         DOMAIN topic_weights)
             total_weight == SumValues(topic_weights)
         IN  IF total_weight > 0 THEN Div(weighted_sum, total_weight) ELSE 0

----------------------------------------------------------------------------
(* core/scoring.py *)

ContentTypes == {"video", "text", "interactive", "quiz", "case_study"}

LearningStyles == {"visual", "auditory", "kinesthetic", "reading_writing"}

\* ScoringComponents.style_affinity, M(type, style)
style_affinity ==
    [video |->
        [visual |-> 10000, auditory |-> 8000, kinesthetic |-> 3000,
         reading_writing |-> 4000],
     text |->
        [visual |-> 5000, auditory |-> 3000, kinesthetic |-> 2000,
         reading_writing |-> 10000],
     interactive |->
        [visual |-> 7000, auditory |-> 5000, kinesthetic |-> 10000,
         reading_writing |-> 6000],
     quiz |->
        [visual |-> 6000, auditory |-> 4000, kinesthetic |-> 7000,
         reading_writing |-> 9000],
     case_study |->
        [visual |-> 8000, auditory |-> 6000, kinesthetic |-> 9000,
         reading_writing |-> 8000]]

learning_style_match(content, s) ==
    IF DOMAIN s.learning_style_preferences = {} THEN ONE \div 2
    ELSE LET prefs == s.learning_style_preferences
             affinity == Get(style_affinity, content.content_type, <<>>)
             score == SumOver([style \in DOMAIN prefs |->
                                  Mul(Get(affinity, style, ONE \div 2), prefs[style])],
                              DOMAIN prefs)
             total_prob == SumValues(prefs)
         IN  IF total_prob > 0 THEN Div(score, total_prob) ELSE ONE \div 2

difficulty_appropriateness(content, s, knowledge_level, delta, sigma_zpd) ==
    LET mu_zpd == knowledge_level + delta
        dist == content.difficulty - mu_zpd
        exponent == Div(Mul(dist, dist), 2 * Mul(sigma_zpd, sigma_zpd))
    IN  ExpNeg(exponent)

estimate_projected_load(content, s) ==
    LET base_load == Mul(content.intrinsic_load, content.difficulty)
        fatigue_factor == Min(Mul(s.current_cognitive_load, 3000), 3000)
        projected == base_load + fatigue_factor
    IN  Clip(projected, 0, ONE)

cognitive_load_optimization(content, s, l_optimal) ==
    LET l_projected == estimate_projected_load(content, s)
        score == ONE - Div(Abs(l_projected - l_optimal), l_optimal)
    IN  Clip(score, 0, ONE)

\* a reading that takes a topic without a mastery entry for a new topic
knowledge_gap_targeting_new(content, s, is_new_topic) ==
    IF is_new_topic \/ content.topic_id \notin DOMAIN s.knowledge_state
    THEN ONE \div 2
    ELSE ONE - s.knowledge_state[content.topic_id]

knowledge_gap_targeting(content, s, is_new_topic) ==
    IF is_new_topic THEN ONE \div 2
    ELSE LET mastery == Get(s.knowledge_state, content.topic_id, 0)
         IN  ONE - mastery

\* x[-n:]
LastN(x, n) == IF Len(x) <= n THEN x ELSE SubSeq(x, Len(x) - n + 1, Len(x))

\* np.mean(x) of a non-empty list
Mean(x) == SumValues(x) \div Len(x)

extract_engagement_features(content, s) ==
    LET recent_perf ==
            IF s.recent_performance # <<>> THEN Mean(LastN(s.recent_performance, 5))
            ELSE ONE \div 2
    IN  [style_match |-> learning_style_match(content, s),
         difficulty_match |-> ONE - Abs(content.difficulty - ONE \div 2),
         recent_performance |-> recent_perf,
         content_variety |-> 5000,
         time_of_day |-> 7000]

\* 1 / (1 + exp(-clip(x, -500, 500))); exp(-x) = 1/exp(x) for x < 0
sigmoid(x) ==
    LET c == Clip(x, -500 * ONE, 500 * ONE)
        e == IF c >= 0 THEN ExpNeg(c) ELSE Div(ONE, ExpNeg(-c))
    IN  Div(ONE, ONE + e)

engagement_prediction(content, s) ==
    LET features == extract_engagement_features(content, s)
        weights == [style_match |-> 3000, difficulty_match |-> 2500,
                    recent_performance |-> 2000, content_variety |-> 1500,
                    time_of_day |-> 1000]
        score == SumOver([key \in DOMAIN weights |->
                             Mul(Get(features, key, ONE \div 2), weights[key])],
                         DOMAIN weights)
    IN  sigmoid(score)

\* a faulty bonus that takes the branch of a content never served for every content
exploration_bonus_unserved(content, total_interactions, beta_0, time_step) ==
    Mul(Div(beta_0, ONE + Ln(time_step + 1)), Sqrt(Ln(total_interactions + 1)))

exploration_bonus(content, total_interactions, beta_0, time_step) ==
    LET beta_t == Div(beta_0, ONE + Ln(time_step + 1))
    IN  IF content.interaction_count = 0
        THEN Mul(beta_t, Sqrt(Ln(total_interactions + 1)))
        ELSE Mul(beta_t, Sqrt(Ln(total_interactions + 1)
                                 \div (content.interaction_count + 1)))

----------------------------------------------------------------------------
(* core/algorithm.py: the pure parts *)

\* a reading that replaces None alone: x if x is not None else default
OrDefaultNone(x, default) == IF x = <<>> THEN default ELSE x[1]

\* x or default: None (the empty tuple) and 0 are falsy
OrDefault(x, default) == IF x = <<>> \/ x[1] = 0 THEN default ELSE x[1]

\* weights or ALGORITHM_CONFIG['weights']: None and the empty dict are falsy
WeightsOrDefault(w) ==
    IF w = <<>> \/ DOMAIN w[1] = {} THEN ALGORITHM_CONFIG.weights ELSE w[1]

\* abs(weight_sum - 1.0) > 0.01, the test of __init__ and of set_weights
\* a faulty validation that compares the signed difference: a sum below 1.0 passes
WeightSumRejectedSigned(w) == SumValues(w) - ONE > ONE \div 100

WeightSumRejected(w) == Abs(SumValues(w) - ONE) > ONE \div 100

\* the fields __init__ sets, when it does not raise
NewEngine(w, p) ==
    [weights |-> WeightsOrDefault(w),
     zpd_delta |-> OrDefault(p.zpd_delta, ALGORITHM_CONFIG.zpd_delta),
     zpd_sigma |-> OrDefault(p.zpd_sigma, ALGORITHM_CONFIG.zpd_sigma),
     cl_optimal |-> OrDefault(p.cl_optimal, ALGORITHM_CONFIG.cl_optimal),
     cl_max |-> OrDefault(p.cl_max, ALGORITHM_CONFIG.cl_max),
     beta_0 |-> OrDefault(p.beta_0, ALGORITHM_CONFIG.beta_0),
     mastery_threshold |-> ALGORITHM_CONFIG.mastery_threshold,
     time_step |-> 0]

prerequisites_met(topic, s, e) ==
    \A prereq_id \in topic.prerequisites :
        ~(Get(s.knowledge_state, prereq_id, 0) < e.mastery_threshold)

\* margin = 0.1
zpd_margin == 1000

\* a faulty zone test that has lost its lower bound
in_zpd_upper_only(difficulty, knowledge_level, e) ==
    difficulty <= knowledge_level + e.zpd_delta + zpd_margin

in_zpd(difficulty, knowledge_level, e) ==
    LET lower_bound == knowledge_level - zpd_margin
        upper_bound == knowledge_level + e.zpd_delta + zpd_margin
    IN  lower_bound <= difficulty /\ difficulty <= upper_bound

\* a faulty filter that rejects a content whose topic the map does not hold
EligibleKnownTopic(content, s, topics, e) ==
    /\ content.topic_id \in DOMAIN topics
    /\ prerequisites_met(topics[content.topic_id], s, e)
    /\ in_zpd(content.difficulty, Get(s.knowledge_state, content.topic_id, 0), e)
    /\ ~(estimate_projected_load(content, s) > e.cl_max)

\* one turn of the loop of _filter_eligible_content: TRUE when content is appended
Eligible(content, s, topics, e) ==
    /\ ~(content.topic_id \in DOMAIN topics
         /\ ~prerequisites_met(topics[content.topic_id], s, e))
    /\ in_zpd(content.difficulty, Get(s.knowledge_state, content.topic_id, 0), e)
    /\ ~(estimate_projected_load(content, s) > e.cl_max)

filter_eligible_content(content_list, s, topics, e) ==
    SelectSeq(content_list, LAMBDA content : Eligible(content, s, topics, e))

ScoreNames == ComponentNames \cup {"exploration", "total"}

\* what _calculate_score returns: the total and the components with it
ScoreResult(ls_score, d_score, cl_score, kg_score, eng_score, e_bonus, total_score) ==
    [raised |-> FALSE,
     total |-> total_score,
     components |->
         [learning_style |-> ls_score, difficulty |-> d_score,
          cognitive_load |-> cl_score, knowledge_gap |-> kg_score,
          engagement |-> eng_score, exploration |-> e_bonus,
          total |-> total_score]]

\* the weighted sum of _calculate_score; weights[name] raises KeyError
WeightedSum(weights, ls_score, d_score, cl_score, kg_score, eng_score, e_bonus) ==
    IF ~(ComponentNames \subseteq DOMAIN weights)
    THEN [raised |-> TRUE, total |-> 0, components |-> <<>>]
    ELSE ScoreResult(ls_score, d_score, cl_score, kg_score, eng_score, e_bonus,
                     Mul(weights["learning_style"], ls_score)
                     + Mul(weights["difficulty"], d_score)
                     + Mul(weights["cognitive_load"], cl_score)
                     + Mul(weights["knowledge_gap"], kg_score)
                     + Mul(weights["engagement"], eng_score)
                     + e_bonus)

\* the six scores _calculate_score computes before it weighs them
component_scores(content, s, knowledge_level, e) ==
    [learning_style |-> learning_style_match(content, s),
     difficulty |-> difficulty_appropriateness(content, s, knowledge_level,
                                               e.zpd_delta, e.zpd_sigma),
     cognitive_load |-> cognitive_load_optimization(content, s, e.cl_optimal),
     knowledge_gap |-> knowledge_gap_targeting(content, s, FALSE),
     engagement |-> engagement_prediction(content, s),
     exploration |-> exploration_bonus(content, s.total_interactions,
                                       e.beta_0, e.time_step)]

\* _calculate_score: [raised, total, components]
calculate_score(content, s, knowledge_level, e) ==
    WeightedSum(e.weights,
                learning_style_match(content, s),
                difficulty_appropriateness(content, s, knowledge_level,
                                           e.zpd_delta, e.zpd_sigma),
                cognitive_load_optimization(content, s, e.cl_optimal),
                knowledge_gap_targeting(content, s, FALSE),
                engagement_prediction(content, s),
                exploration_bonus(content, s.total_interactions,
                                  e.beta_0, e.time_step))

RECURSIVE MinByDifficulty(_, _, _)
\* min(available_content, key=lambda c: c.difficulty) from position i: the first least
MinByDifficulty(content_list, i, best) ==
    IF i > Len(content_list) THEN best
    ELSE MinByDifficulty(content_list, i + 1,
                         IF content_list[i].difficulty < best.difficulty
                         THEN content_list[i] ELSE best)

\* best_score = -np.inf
NEG_INF == -1000000000

\* one turn of the loop of select_optimal_content, r being _calculate_score's result:
\* if score > best_score, the new best_score, best_content and best_components
Better(best, content, r) ==
    IF r.raised THEN [best EXCEPT !.raised = TRUE]
    ELSE IF r.total > best.score
         THEN [raised |-> FALSE, score |-> r.total, content |-> content.id,
               components |-> r.components]
         ELSE best

RECURSIVE ScoreLoop(_, _, _, _, _, _)
\* the loop of select_optimal_content from position i of eligible_content
ScoreLoop(eligible, i, s, knowledge_level, e, best) ==
    IF i > Len(eligible) \/ best.raised THEN best
    ELSE ScoreLoop(eligible, i + 1, s, knowledge_level, e,
                   Better(best, eligible[i],
                          calculate_score(eligible[i], s, knowledge_level, e)))

\* K(st) as select_optimal_content computes it
KnowledgeLevel(s, topics) ==
    LET topic_weights ==
            [tid \in DOMAIN s.knowledge_state \cap DOMAIN topics |->
                topics[tid].importance_weight]
    IN  estimate_knowledge_level(s.knowledge_state, topic_weights)

\* the fallback of select_optimal_content; min() of an empty list raises ValueError
Fallback(available_content, e) ==
    IF available_content = <<>>
    THEN [raised |-> TRUE, content |-> "None", scores |-> <<>>,
          time_step |-> e.time_step]
    ELSE [raised |-> FALSE,
          content |-> MinByDifficulty(available_content, 2, available_content[1]).id,
          scores |-> <<>>,
          time_step |-> e.time_step]

\* the end of select_optimal_content: self.time_step += 1 and the return
Selected(best, e) ==
    IF best.raised
    THEN [raised |-> TRUE, content |-> "None", scores |-> <<>>,
          time_step |-> e.time_step]
    ELSE [raised |-> FALSE, content |-> best.content, scores |-> best.components,
          time_step |-> e.time_step + 1]

\* select_optimal_content once eligible_content is known
SelectAmong(eligible_content, s, available_content, topics, e) ==
    IF eligible_content = <<>>
    THEN Fallback(available_content, e)
    ELSE Selected(ScoreLoop(eligible_content, 1, s, KnowledgeLevel(s, topics), e,
                            [raised |-> FALSE, score |-> NEG_INF,
                             content |-> "None", components |-> <<>>]),
                  e)

\* select_optimal_content: [raised, content, scores, time_step]
select_optimal_content(s, available_content, topics, e) ==
    SelectAmong(filter_eligible_content(available_content, s, topics, e),
                s, available_content, topics, e)

\* the length of the two bounded histories
HistoryLimit == 20

\* a faulty truncation that keeps the oldest 20 entries, x[:20]
AppendKeepOldest(x, v) ==
    LET y == Append(x, v)
    IN  IF Len(y) > HistoryLimit THEN SubSeq(y, 1, HistoryLimit) ELSE y

\* x.append(v); if len(x) > 20: x = x[-20:]
AppendBounded(x, v) ==
    LET y == Append(x, v)
    IN  IF Len(y) > HistoryLimit THEN LastN(y, HistoryLimit) ELSE y

\* the mastery at which a topic joins mastered_topics
MasteredAt == 8000

\* decay_factor = 0.8 and the weight 0.2 of the new load
decay_factor == 8000
load_factor == 2000

\* a faulty update that appends without testing membership
UpdateMasteredAlways(mastered_topics, topic_id, new_mastery) ==
    IF new_mastery >= MasteredAt
    THEN Append(mastered_topics, topic_id)
    ELSE mastered_topics

\* mastered_topics after the update
UpdateMastered(mastered_topics, topic_id, new_mastery) ==
    IF new_mastery >= MasteredAt
       /\ ~(\E i \in 1..Len(mastered_topics) : mastered_topics[i] = topic_id)
    THEN Append(mastered_topics, topic_id)
    ELSE mastered_topics

\* a faulty update that adds the whole intrinsic load to the decayed load
UpdateLoadUnweighted(current_cognitive_load, intrinsic_load) ==
    Clip(Mul(current_cognitive_load, decay_factor) + intrinsic_load, 0, ONE)

\* current_cognitive_load after the update
UpdateLoad(current_cognitive_load, intrinsic_load) ==
    Clip(Mul(current_cognitive_load, decay_factor) + Mul(intrinsic_load, load_factor),
         0, ONE)

\* a faulty update that files the new mastery under the content's topic
update_student_state_by_content(s, observation, content) ==
    LET current_mastery == Get(s.knowledge_state, content.topic_id, 0)
        new_mastery == update_mastery(current_mastery, observation.correct)
    IN  [s EXCEPT
            !.knowledge_state =
                [t \in DOMAIN s.knowledge_state \cup {content.topic_id} |->
                    IF t = content.topic_id THEN new_mastery
                    ELSE s.knowledge_state[t]],
            !.mastered_topics =
                UpdateMastered(s.mastered_topics, content.topic_id, new_mastery),
            !.recent_performance =
                AppendBounded(s.recent_performance,
                              IF observation.correct THEN ONE ELSE 0),
            !.current_cognitive_load =
                UpdateLoad(s.current_cognitive_load, content.intrinsic_load),
            !.engagement_history =
                AppendBounded(s.engagement_history, observation.engagement_score),
            !.total_interactions = s.total_interactions + 1]

\* update_student_state: the student as it leaves
update_student_state(s, observation, content) ==
    LET current_mastery == Get(s.knowledge_state, observation.topic_id, 0)
        new_mastery == update_mastery(current_mastery, observation.correct)
        performance_score == IF observation.correct THEN ONE ELSE 0
    IN  [s EXCEPT
            !.knowledge_state =
                [t \in DOMAIN s.knowledge_state \cup {observation.topic_id} |->
                    IF t = observation.topic_id THEN new_mastery
                    ELSE s.knowledge_state[t]],
            !.mastered_topics =
                UpdateMastered(s.mastered_topics, observation.topic_id, new_mastery),
            !.recent_performance =
                AppendBounded(s.recent_performance, performance_score),
            !.current_cognitive_load =
                UpdateLoad(s.current_cognitive_load, content.intrinsic_load),
            !.engagement_history =
                AppendBounded(s.engagement_history, observation.engagement_score),
            !.total_interactions = s.total_interactions + 1]

----------------------------------------------------------------------------
(* The callers' inputs *)

\* topic t2 requires t1; no map holds t3
FullTopics ==
    [t1 |-> [id |-> "t1", prerequisites |-> {}, importance_weight |-> 10000],
     t2 |-> [id |-> "t2", prerequisites |-> {"t1"}, importance_weight |-> 20000]]

\* a map that lacks the topic t2
PartTopics ==
    [t1 |-> [id |-> "t1", prerequisites |-> {}, importance_weight |-> 10000]]

TopicMaps == {FullTopics, PartTopics}

\* c1 and c2 differ in their id and in how often they were served
Catalog ==
    [c1 |-> [id |-> "c1", topic_id |-> "t1", content_type |-> "video",
             difficulty |-> 2500, intrinsic_load |-> 5000, interaction_count |-> 0],
     c2 |-> [id |-> "c2", topic_id |-> "t1", content_type |-> "video",
             difficulty |-> 2500, intrinsic_load |-> 5000, interaction_count |-> 2],
     c3 |-> [id |-> "c3", topic_id |-> "t2", content_type |-> "interactive",
             difficulty |-> 9000, intrinsic_load |-> 9000, interaction_count |-> 1]]

ContentIds == DOMAIN Catalog

\* the lists of at most MaxCand different contents
CandidateLists ==
    {l \in UNION {[1..n -> ContentIds] : n \in 0..MaxCand} :
        \A i, j \in 1..Len(l) : i # j => l[i] # l[j]}

\* a student as the constructor of models/schemas.py leaves it
FreshStudent ==
    [student_id |-> "s1",
     knowledge_state |-> <<>>,
     learning_style_preferences |-> <<>>,
     current_cognitive_load |-> 0,
     recent_performance |-> <<>>,
     mastered_topics |-> <<>>,
     total_interactions |-> 0,
     engagement_history |-> <<>>]

\* a student with full histories, as after a score of interactions
VeteranStudent ==
    [student_id |-> "s2",
     knowledge_state |-> [t1 |-> 6000, t2 |-> 8500, t3 |-> 9000],
     learning_style_preferences |-> [visual |-> 7000, reading_writing |-> 3000],
     current_cognitive_load |-> 2000,
     recent_performance |-> [i \in 1..20 |-> IF i % 3 = 0 THEN 0 ELSE ONE],
     mastered_topics |-> <<"t3", "t2">>,
     total_interactions |-> 20,
     engagement_history |-> [i \in 1..19 |-> 500 * i]]

InitStudents == {FreshStudent, VeteranStudent}

Observations ==
    {[content_id |-> "c3", topic_id |-> "t1", correct |-> TRUE,
      engagement_score |-> 9000],
     [content_id |-> "c1", topic_id |-> "t1", correct |-> FALSE,
      engagement_score |-> 2000],
     [content_id |-> "c1", topic_id |-> "t2", correct |-> TRUE,
      engagement_score |-> 6000]}

\* update_student_state is called with an observation and the content it names
Interactions == {<<o, o.content_id>> : o \in Observations}

\* or with any content
AllInteractions == Observations \X {"c1", "c3"}

\* the weight mappings given to __init__ and set_weights
TolWeights ==
    [learning_style |-> 3000, difficulty |-> 1000, cognitive_load |-> 2000,
     knowledge_gap |-> 1000, engagement |-> 2950]

LowWeights ==
    [learning_style |-> 2000, difficulty |-> 2000, cognitive_load |-> 2000,
     knowledge_gap |-> 2000, engagement |-> 1000]

HighWeights ==
    [learning_style |-> 2000, difficulty |-> 2000, cognitive_load |-> 2000,
     knowledge_gap |-> 2000, engagement |-> 2200]

PartWeights == [learning_style |-> 4000, difficulty |-> 6000]

WeightInputs ==
    {ALGORITHM_CONFIG.weights, TolWeights, LowWeights, HighWeights, PartWeights, <<>>}

\* the parameters given to __init__: all omitted, all 0, all set
ParamInputs ==
    {[zpd_delta |-> <<>>, zpd_sigma |-> <<>>, cl_optimal |-> <<>>,
      cl_max |-> <<>>, beta_0 |-> <<>>],
     [zpd_delta |-> <<0>>, zpd_sigma |-> <<0>>, cl_optimal |-> <<0>>,
      cl_max |-> <<0>>, beta_0 |-> <<0>>],
     [zpd_delta |-> <<3000>>, zpd_sigma |-> <<2000>>, cl_optimal |-> <<6000>>,
      cl_max |-> <<9500>>, beta_0 |-> <<5000>>]}

----------------------------------------------------------------------------
(* The state machine *)

NoEngine ==
    [weights |-> <<>>, zpd_delta |-> 0, zpd_sigma |-> 0, cl_optimal |-> 0,
     cl_max |-> 0, beta_0 |-> 0, mastery_threshold |-> 0, time_step |-> 0]

NoCall ==
    [op |-> "none", raised |-> FALSE, weights |-> <<>>, params |-> <<>>,
     available_content |-> <<>>, topics |-> <<>>, observation |-> <<>>,
     content |-> "None", scores |-> <<>>, returned |-> <<>>,
     topic_weights |-> <<>>]

Init ==
    /\ pc = "new"
    /\ engine = NoEngine
    /\ student \in InitStudents
    /\ catalog = Catalog
    /\ ret = NoCall
    /\ trace = [performance |-> student.recent_performance,
                engagement |-> student.engagement_history,
                calls |-> 0]
    /\ threads = <<>>

\* AdaptiveLearningAlgorithm(weights, zpd_delta, ..., beta_0)
Construct(w, p) ==
    /\ pc = "new"
    /\ IF WeightSumRejected(WeightsOrDefault(w))
       THEN /\ pc' = "failed"
            /\ engine' = engine
            /\ ret' = [NoCall EXCEPT !.op = "init", !.raised = TRUE,
                                     !.weights = w, !.params = <<p>>]
       ELSE /\ pc' = "ready"
            /\ engine' = NewEngine(w, p)
            /\ ret' = [NoCall EXCEPT !.op = "init", !.weights = w, !.params = <<p>>]
    /\ UNCHANGED <<student, catalog, trace, threads>>

\* a faulty select that counts the content it returns as served
SelectServing(ids, topics) ==
    /\ pc = "ready"
    /\ engine.time_step < MaxTime
    /\ \E r \in {select_optimal_content(student, [i \in 1..Len(ids) |-> catalog[ids[i]]],
                                         topics, engine)} :
           /\ engine' = [engine EXCEPT !.time_step = r.time_step]
           /\ ret' = [NoCall EXCEPT !.op = "select", !.raised = r.raised,
                                    !.available_content = ids, !.topics = topics,
                                    !.content = r.content, !.scores = r.scores]
           /\ catalog' =
                  IF r.raised THEN catalog
                  ELSE [catalog EXCEPT ![r.content].interaction_count = @ + 1]
    /\ UNCHANGED <<pc, student, trace, threads>>

\* engine.select_optimal_content(student, available_content, topics)
Select(ids, topics) ==
    /\ pc = "ready"
    /\ engine.time_step < MaxTime
    /\ \E r \in {select_optimal_content(student, [i \in 1..Len(ids) |-> catalog[ids[i]]],
                                         topics, engine)} :
           /\ engine' = [engine EXCEPT !.time_step = r.time_step]
           /\ ret' = [NoCall EXCEPT !.op = "select", !.raised = r.raised,
                                    !.available_content = ids, !.topics = topics,
                                    !.content = r.content, !.scores = r.scores]
    /\ UNCHANGED <<pc, student, catalog, trace, threads>>

\* engine.update_student_state(student, observation, content), at most limit times
Apply(observation, id, limit) ==
    /\ pc = "ready"
    /\ trace.calls < limit
    /\ student' = update_student_state(student, observation, catalog[id])
    /\ ret' = [NoCall EXCEPT !.op = "apply", !.observation = <<observation>>,
                             !.content = id, !.returned = <<student'>>]
    /\ trace' = [performance |->
                     Append(trace.performance, IF observation.correct THEN ONE ELSE 0),
                 engagement |->
                     Append(trace.engagement, observation.engagement_score),
                 calls |-> trace.calls + 1]
    /\ UNCHANGED <<pc, engine, catalog, threads>>

\* engine.set_weights(weights)
SetWeights(w) ==
    /\ pc = "ready"
    /\ IF WeightSumRejected(w)
       THEN /\ engine' = engine
            /\ ret' = [NoCall EXCEPT !.op = "set_weights", !.raised = TRUE,
                                     !.weights = <<w>>]
       ELSE /\ engine' = [engine EXCEPT !.weights = w]
            /\ ret' = [NoCall EXCEPT !.op = "set_weights", !.weights = <<w>>]
    /\ UNCHANGED <<pc, student, catalog, trace, threads>>

Next ==
    \/ \E w \in {<<>>} \cup {<<x>> : x \in WeightInputs}, p \in ParamInputs :
           Construct(w, p)
    \/ \E ids \in CandidateLists, topics \in TopicMaps : Select(ids, topics)
    \/ \E i \in Interactions : Apply(i[1], i[2], MaxSteps)
    \/ \E w \in WeightInputs : SetWeights(w)

Spec == Init /\ [][Next]_vars

\* a fresh student under an engine constructed with no arguments
InitStudent ==
    /\ pc = "ready"
    /\ engine = NewEngine(<<>>, CHOOSE p \in ParamInputs : p.zpd_delta = <<>>)
    /\ student = FreshStudent
    /\ catalog = Catalog
    /\ ret = NoCall
    /\ trace = [performance |-> <<>>, engagement |-> <<>>, calls |-> 0]
    /\ threads = <<>>

NextStudent == \E i \in AllInteractions : Apply(i[1], i[2], MaxDeep)

\* update_student_state alone, from a fresh student
SpecStudent == InitStudent /\ [][NextStudent]_vars

\* the prior masteries update_mastery is given
Priors == {(i * ONE) \div MaxPriors : i \in 0..MaxPriors}

\* a student who holds one mastery, of topic t1, under a default engine
InitMastery ==
    /\ pc = "ready"
    /\ engine = NewEngine(<<>>, CHOOSE p \in ParamInputs : p.zpd_delta = <<>>)
    /\ \E m \in Priors : student = [FreshStudent EXCEPT !.knowledge_state = [t1 |-> m]]
    /\ catalog = Catalog
    /\ ret = NoCall
    /\ trace = [performance |-> <<>>, engagement |-> <<>>, calls |-> 0]
    /\ threads = <<>>

\* update_student_state, and with it update_mastery, from every prior
NextMastery == \E i \in AllInteractions : Apply(i[1], i[2], MaxSteps)

SpecMastery == InitMastery /\ [][NextMastery]_vars

\* a correct and an incorrect observation on topic t1
Lesson ==
    Apply([content_id |-> "c3", topic_id |-> "t1", correct |-> TRUE,
           engagement_score |-> 9000], "c3", MaxLearn)

\* incorrect observations come first and leave room for three correct ones
Wrong ==
    Apply([content_id |-> "c1", topic_id |-> "t1", correct |-> FALSE,
           engagement_score |-> 2000], "c1", MaxLearn - 3)

\* a student who holds no mastery of t1, or any prior mastery of it
InitLearn ==
    /\ pc = "ready"
    /\ engine = NewEngine(<<>>, CHOOSE p \in ParamInputs : p.zpd_delta = <<>>)
    /\ \E k \in {<<>>} \cup {[t1 |-> m] : m \in Priors} :
          student = [FreshStudent EXCEPT !.knowledge_state = k]
    /\ catalog = Catalog
    /\ ret = NoCall
    /\ trace = [performance |-> <<>>, engagement |-> <<>>, calls |-> 0]
    /\ threads = <<>>

\* topic t1 keeps receiving correct observations
SpecLearn == InitLearn /\ [][Lesson \/ Wrong]_vars /\ WF_vars(Lesson)

\* the mappings estimate_knowledge_level is given: masteries of some of the
\* topics t1, t2 and weights of some of the topics t1, t2, t3
MasteryMaps ==
    UNION {[T -> {0, 2500, 6000, ONE}] : T \in SUBSET {"t1", "t2"}}

WeightMaps ==
    UNION {[T -> {0, 3000, 20000}] : T \in SUBSET {"t1", "t2", "t3"}}

\* the two mappings are drawn; the masteries are a student's knowledge_state
InitLevel ==
    /\ pc = "ready"
    /\ engine = NewEngine(<<>>, CHOOSE p \in ParamInputs : p.zpd_delta = <<>>)
    /\ \E m \in MasteryMaps : student = [FreshStudent EXCEPT !.knowledge_state = m]
    /\ catalog = Catalog
    /\ \E w \in WeightMaps : ret = [NoCall EXCEPT !.topic_weights = w]
    /\ trace = [performance |-> <<>>, engagement |-> <<>>, calls |-> 0]
    /\ threads = <<>>

\* engine.bkt.estimate_knowledge_level(student.knowledge_state, topic_weights)
EstimateKnowledgeLevel ==
    /\ pc = "ready"
    /\ ret.op = "none"
    /\ ret' = [ret EXCEPT
                  !.op = "estimate_knowledge_level",
                  !.returned = <<estimate_knowledge_level(student.knowledge_state,
                                                          ret.topic_weights)>>]
    /\ UNCHANGED <<pc, engine, student, catalog, trace, threads>>

SpecLevel == InitLevel /\ [][EstimateKnowledgeLevel]_vars

\* the arguments of exploration_bonus are drawn: the content c1 served some
\* times, a student with some interactions, an engine with some time_step and
\* with the default beta_0 or its own
InitBonus ==
    /\ pc = "ready"
    /\ \E p \in {q \in ParamInputs : q.beta_0 # <<0>>}, t \in 0..MaxTick :
           engine = [NewEngine(<<>>, p) EXCEPT !.time_step = t]
    /\ \E n \in 0..MaxTotal : student = [FreshStudent EXCEPT !.total_interactions = n]
    /\ \E k \in 0..MaxCount : catalog = [Catalog EXCEPT !["c1"].interaction_count = k]
    /\ ret = NoCall
    /\ trace = [performance |-> <<>>, engagement |-> <<>>, calls |-> 0]
    /\ threads = <<>>

\* engine.scoring.exploration_bonus(content, student.total_interactions,
\*                                  engine.beta_0, engine.time_step)
ExplorationBonus ==
    /\ pc = "ready"
    /\ ret.op = "none"
    /\ ret' = [ret EXCEPT
                  !.op = "exploration_bonus",
                  !.content = "c1",
                  !.returned = <<exploration_bonus(catalog["c1"],
                                                   student.total_interactions,
                                                   engine.beta_0, engine.time_step)>>]
    /\ UNCHANGED <<pc, engine, student, catalog, trace, threads>>

SpecBonus == InitBonus /\ [][ExplorationBonus]_vars

----------------------------------------------------------------------------
(* The records.  models/schemas.py declares Content, StudentState and        *)
(* Observation as plain dataclasses; models/content.py and models/student.py *)
(* declare records of the same names with a __post_init__ that validates.    *)

\* the module core/algorithm.py and core/scoring.py import their records from
EngineRecords == "schemas"

RecordModules == {"schemas", "validated"}

\* the reals given for a field that should lie in [0,1]
FieldValues == {-1000, 0, 5000, ONE, 11000}

InRange(x) == 0 <= x /\ x <= ONE

\* Content.__post_init__ of models/content.py raises
ContentRejected(a) ==
    \/ ~InRange(a.difficulty)
    \/ ~InRange(a.intrinsic_load)
    \/ a.estimated_duration <= 0

\* Observation.__post_init__ of models/student.py raises
ObservationRejected(a) ==
    \/ ~InRange(a.engagement_score)
    \/ a.time_spent < 0

\* StudentState.__post_init__ of models/student.py raises
StudentStateRejected(a) ==
    \/ /\ a.learning_style_preferences # <<>>
       /\ Abs(SumValues(a.learning_style_preferences) - ONE) > ONE \div 100
    \/ ~InRange(a.current_cognitive_load)
    \/ \E t \in DOMAIN a.knowledge_state : ~InRange(a.knowledge_state[t])

\* the preferences __post_init__ leaves: a uniform distribution when none is given
PreferencesOrUniform(prefs) ==
    IF prefs # <<>> THEN prefs ELSE [style \in LearningStyles |-> ONE \div 4]

\* the record a constructor leaves: the fields given, module aside
Constructed(kind, a) ==
    IF kind = "StudentState" /\ a.module = "validated"
    THEN [student_id |-> "s1",
          knowledge_state |-> a.knowledge_state,
          learning_style_preferences |->
              PreferencesOrUniform(a.learning_style_preferences),
          current_cognitive_load |-> a.current_cognitive_load]
    ELSE IF kind = "StudentState"
    THEN [student_id |-> "s1",
          knowledge_state |-> a.knowledge_state,
          learning_style_preferences |-> a.learning_style_preferences,
          current_cognitive_load |-> a.current_cognitive_load]
    ELSE IF kind = "Content"
    THEN [id |-> "c1", difficulty |-> a.difficulty,
          intrinsic_load |-> a.intrinsic_load,
          estimated_duration |-> a.estimated_duration]
    ELSE [content_id |-> "c1", engagement_score |-> a.engagement_score,
          time_spent |-> a.time_spent]

\* the constructor of kind raises for the arguments a; the dataclasses of
\* models/schemas.py have no __post_init__ and raise for none
Rejected(kind, a) ==
    /\ a.module = "validated"
    /\ IF kind = "Content" THEN ContentRejected(a)
       ELSE IF kind = "Observation" THEN ObservationRejected(a)
       ELSE StudentStateRejected(a)

\* what a constructor call leaves: it raises, or returns the record
Call(kind, a) ==
    [NoCall EXCEPT
        !.op = kind,
        !.params = <<a>>,
        !.raised = Rejected(kind, a),
        !.returned = IF Rejected(kind, a) THEN <<>>
                     ELSE <<Constructed(kind, a)>>]

\* Content(...)
NewContent ==
    /\ ret.op = "none"
    /\ \E m \in RecordModules, d \in FieldValues, l \in FieldValues, n \in {-5, 0, 30} :
          ret' = Call("Content", [module |-> m, difficulty |-> d,
                                  intrinsic_load |-> l, estimated_duration |-> n])
    /\ UNCHANGED <<pc, engine, student, catalog, trace, threads>>

\* Observation(...)
NewObservation ==
    /\ ret.op = "none"
    /\ \E m \in RecordModules, g \in FieldValues, n \in {-1, 0, 60} :
          ret' = Call("Observation", [module |-> m, engagement_score |-> g,
                                      time_spent |-> n])
    /\ UNCHANGED <<pc, engine, student, catalog, trace, threads>>

\* StudentState(...): no preferences, or preferences summing to 1.0, 0.995, 0.9, 1.02
NewStudentState ==
    /\ ret.op = "none"
    /\ \E m \in RecordModules, l \in FieldValues,
          k \in {<<>>} \cup {[t1 |-> v] : v \in FieldValues},
          q \in {<<>>,
                 [visual |-> 7000, reading_writing |-> 3000],
                 [visual |-> 7000, reading_writing |-> 2950],
                 [visual |-> 6000, reading_writing |-> 3000],
                 [visual |-> 7000, auditory |-> 3200]} :
          ret' = Call("StudentState", [module |-> m, current_cognitive_load |-> l,
                                       knowledge_state |-> k,
                                       learning_style_preferences |-> q])
    /\ UNCHANGED <<pc, engine, student, catalog, trace, threads>>

InitRecords ==
    /\ pc = "new"
    /\ engine = NoEngine
    /\ student = FreshStudent
    /\ catalog = Catalog
    /\ ret = NoCall
    /\ trace = [performance |-> <<>>, engagement |-> <<>>, calls |-> 0]
    /\ threads = <<>>

\* the records are constructed
SpecRecords ==
    InitRecords /\ [][NewContent \/ NewObservation \/ NewStudentState]_vars

----------------------------------------------------------------------------
(* Serialisation.  models/content.py and models/student.py give their        *)
(* records a to_dict and a from_dict.  An object is its class and its        *)
(* fields; a dictionary is a function on its keys.  An enumeration member    *)
(* is written by its name ("ContentType_VIDEO") and serialised to its value  *)
(* ("video"); a datetime is serialised to its ISO string; None is "None".    *)

ContentTypeValue ==
    [ContentType_VIDEO |-> "video", ContentType_TEXT |-> "text",
     ContentType_INTERACTIVE |-> "interactive", ContentType_QUIZ |-> "quiz",
     ContentType_CASE_STUDY |-> "case_study"]

LearningStyleValue ==
    [LearningStyle_VISUAL |-> "visual", LearningStyle_AUDITORY |-> "auditory",
     LearningStyle_KINESTHETIC |-> "kinesthetic",
     LearningStyle_READING_WRITING |-> "reading_writing"]

\* Enum(value): the member holding the value
MemberOf(table, value) == CHOOSE m \in DOMAIN table : table[m] = value

Values(table) == {table[m] : m \in DOMAIN table}

DateTimes == [datetime_2024_01_01 |-> "2024-01-01T00:00:00"]

\* datetime.isoformat and datetime.fromisoformat
isoformat(d) == DateTimes[d]
fromisoformat(str) == MemberOf(DateTimes, str)

\* self.created_at.isoformat() if self.created_at else None
IsoOrNone(d) == IF d # "None" THEN isoformat(d) ELSE "None"

Classes == {"Content", "CaseStudy", "Quiz", "Topic", "StudentState"}

\* the fields with a default, by class
Defaults(cls) ==
    LET content ==
            [intrinsic_load |-> 5000, content_data |-> <<>>, interaction_count |-> 0,
             created_at |-> "None", updated_at |-> "None", prerequisites |-> <<>>,
             learning_objectives |-> <<>>, tags |-> <<>>]
    IN  IF cls = "Content" THEN content
        ELSE IF cls = "CaseStudy"
        THEN content @@
             [patient_presentation |-> "", clinical_questions |-> <<>>,
              assessment_criteria |-> <<>>, learning_points |-> <<>>,
              complexity_level |-> "moderate"]
        ELSE IF cls = "Quiz"
        THEN content @@
             [questions |-> <<>>, passing_score |-> 7000, time_limit |-> "None",
              randomize_questions |-> FALSE, show_feedback |-> TRUE]
        ELSE IF cls = "Topic"
        THEN [prerequisites |-> <<>>, importance_weight |-> ONE, difficulty |-> 5000,
              created_at |-> "None", description |-> "", learning_outcomes |-> <<>>,
              estimated_hours |-> 0]
        ELSE [knowledge_state |-> <<>>, learning_style_preferences |-> <<>>,
              current_cognitive_load |-> 0, recent_performance |-> <<>>,
              mastered_topics |-> <<>>, total_interactions |-> 0,
              engagement_history |-> <<>>, created_at |-> "None",
              updated_at |-> "None", metadata |-> <<>>]

\* the dataclass fields, by class: the ones without a default and the others
Fields(cls) ==
    DOMAIN Defaults(cls) \cup
        (IF cls = "Topic" THEN {"id", "name"}
         ELSE IF cls = "StudentState" THEN {"student_id"}
         ELSE {"id", "topic_id", "content_type", "difficulty", "title",
               "description", "estimated_duration"})

\* cls(**data) raises TypeError: a keyword that is no field, or a field
\* without a default that is not given
BadArguments(cls, data) ==
    \/ \E k \in DOMAIN data : k \notin Fields(cls)
    \/ \E f \in Fields(cls) : f \notin DOMAIN data /\ f \notin DOMAIN Defaults(cls)

\* the fields the generated __init__ stores
Given(cls, data) ==
    [f \in Fields(cls) |-> IF f \in DOMAIN data THEN data[f] ELSE Defaults(cls)[f]]

\* Topic.__post_init__ raises
TopicRejected(a) ==
    \/ a.importance_weight <= 0
    \/ ~InRange(a.difficulty)

\* __post_init__ raises ValueError
PostInitRejected(cls, a) ==
    IF cls = "Topic" THEN TopicRejected(a)
    ELSE IF cls = "StudentState" THEN StudentStateRejected(a)
    ELSE ContentRejected(a)

\* the fields __post_init__ leaves
PostInit(cls, a) ==
    IF cls = "CaseStudy" THEN [a EXCEPT !.content_type = "ContentType_CASE_STUDY"]
    ELSE IF cls = "Quiz" THEN [a EXCEPT !.content_type = "ContentType_QUIZ"]
    ELSE IF cls = "StudentState" /\ a.learning_style_preferences = <<>>
    THEN [a EXCEPT !.learning_style_preferences =
                       [m \in DOMAIN LearningStyleValue |-> ONE \div 4]]
    ELSE a

\* cls(**data): the object, or the exception raised
New(cls, data) ==
    IF BadArguments(cls, data) THEN [raised |-> TRUE, error |-> "TypeError"]
    ELSE IF PostInitRejected(cls, Given(cls, data))
    THEN [raised |-> TRUE, error |-> "ValueError"]
    ELSE [raised |-> FALSE, class |-> cls,
          fields |-> PostInit(cls, Given(cls, data))]

\* Content.to_dict
ContentToDict(a) ==
    [k \in Fields("Content") |->
        IF k = "content_type" THEN ContentTypeValue[a.content_type]
        ELSE IF k \in {"created_at", "updated_at"} THEN IsoOrNone(a[k])
        ELSE a[k]]

\* CaseStudy.to_dict
CaseStudyToDict(a) ==
    [k \in Fields("CaseStudy") \ Fields("Content") |-> a[k]] @@ ContentToDict(a)

\* Quiz.to_dict
QuizToDict(a) ==
    [k \in (Fields("Quiz") \ Fields("Content")) \cup {"question_count"} |->
        IF k = "question_count" THEN Len(a.questions) ELSE a[k]]
    @@ ContentToDict(a)

\* Topic.to_dict
TopicToDict(a) ==
    [k \in Fields("Topic") |-> IF k = "created_at" THEN IsoOrNone(a[k]) ELSE a[k]]

\* StudentState.to_dict
StudentStateToDict(a) ==
    [k \in Fields("StudentState") |->
        IF k = "learning_style_preferences"
        THEN [v \in {LearningStyleValue[m] : m \in DOMAIN a.learning_style_preferences}
                 |-> a.learning_style_preferences[MemberOf(LearningStyleValue, v)]]
        ELSE IF k \in {"created_at", "updated_at"} THEN IsoOrNone(a[k])
        ELSE a[k]]

\* obj.to_dict(), by the class of obj
to_dict(obj) ==
    IF obj.class = "Content" THEN ContentToDict(obj.fields)
    ELSE IF obj.class = "CaseStudy" THEN CaseStudyToDict(obj.fields)
    ELSE IF obj.class = "Quiz" THEN QuizToDict(obj.fields)
    ELSE IF obj.class = "Topic" THEN TopicToDict(obj.fields)
    ELSE StudentStateToDict(obj.fields)

\* the datetime conversions of from_dict: an ISO string becomes a datetime
ParseDates(data, keys) ==
    [k \in DOMAIN data |->
        IF k \in keys /\ data[k] \in Values(DateTimes)
        THEN fromisoformat(data[k]) ELSE data[k]]

\* Content.from_dict, which CaseStudy and Quiz inherit
ContentFromDict(cls, data) ==
    LET dated == ParseDates(data, {"created_at", "updated_at"})
        typed == [k \in DOMAIN dated |->
                     IF k = "content_type" /\ dated[k] \in Values(ContentTypeValue)
                     THEN MemberOf(ContentTypeValue, dated[k]) ELSE dated[k]]
    IN  New(cls, typed)

\* Topic.from_dict
TopicFromDict(data) == New("Topic", ParseDates(data, {"created_at"}))

\* StudentState.from_dict
StudentStateFromDict(data) ==
    LET styled ==
            [k \in DOMAIN data |->
                IF k = "learning_style_preferences"
                THEN [m \in {MemberOf(LearningStyleValue, v) : v \in DOMAIN data[k]}
                         |-> data[k][LearningStyleValue[m]]]
                ELSE data[k]]
    IN  New("StudentState", ParseDates(styled, {"created_at", "updated_at"}))

\* cls.from_dict(data)
from_dict(cls, data) ==
    IF cls = "Topic" THEN TopicFromDict(data)
    ELSE IF cls = "StudentState" THEN StudentStateFromDict(data)
    ELSE ContentFromDict(cls, data)

\* the arguments the records are constructed from, by class
Arguments(cls) ==
    LET Dates == {"None"} \cup DOMAIN DateTimes
    IN  IF cls = "Content"
        THEN {[id |-> "c1", topic_id |-> "t1", content_type |-> ct, difficulty |-> d,
               title |-> "title", description |-> "text", estimated_duration |-> 30,
               created_at |-> c, updated_at |-> u] :
                 ct \in {"ContentType_VIDEO", "ContentType_QUIZ"},
                 d \in {0, 5000, ONE}, c \in Dates, u \in Dates}
        ELSE IF cls = "CaseStudy"
        THEN {[id |-> "c2", topic_id |-> "t1", content_type |-> "ContentType_TEXT",
               difficulty |-> 5000, title |-> "title", description |-> "text",
               estimated_duration |-> 45, complexity_level |-> x, created_at |-> c] :
                 x \in {"simple", "complex"}, c \in Dates}
        ELSE IF cls = "Quiz"
        THEN {[id |-> "c3", topic_id |-> "t1", content_type |-> "ContentType_QUIZ",
               difficulty |-> 5000, title |-> "title", description |-> "text",
               estimated_duration |-> 10, questions |-> q, created_at |-> c] :
                 q \in {<<>>, <<"q1">>, <<"q1", "q2">>}, c \in Dates}
        ELSE IF cls = "Topic"
        THEN {[id |-> "t2", name |-> "topic", prerequisites |-> pr,
               importance_weight |-> w, difficulty |-> d, created_at |-> c] :
                 pr \in {<<>>, <<"t1">>}, w \in {ONE, 20000}, d \in {0, 5000},
                 c \in Dates}
        ELSE {[student_id |-> "s1", knowledge_state |-> k,
               learning_style_preferences |-> q, current_cognitive_load |-> l,
               created_at |-> c] :
                 k \in {<<>>, [t1 |-> 6000]},
                 q \in {<<>>,
                        [LearningStyle_VISUAL |-> 7000,
                         LearningStyle_READING_WRITING |-> 3000],
                        [LearningStyle_VISUAL |-> 7000,
                         LearningStyle_READING_WRITING |-> 2950]},
                 l \in {0, 5000}, c \in Dates}

\* the valid records: the ones the constructors return
ValidRecords ==
    {New(cls, a) : <<cls, a>> \in UNION {{cls} \X Arguments(cls) : cls \in Classes}}

InitRoundTrip ==
    /\ pc = "new"
    /\ engine = NoEngine
    /\ student = FreshStudent
    /\ catalog = Catalog
    /\ \E r \in ValidRecords : ret = [NoCall EXCEPT !.params = <<r>>]
    /\ trace = [performance |-> <<>>, engagement |-> <<>>, calls |-> 0]
    /\ threads = <<>>

\* data = r.to_dict()
ToDict ==
    /\ ret.op = "none"
    /\ ret' = [ret EXCEPT !.op = "to_dict",
                          !.returned = <<to_dict(ret.params[1])>>]
    /\ UNCHANGED <<pc, engine, student, catalog, trace, threads>>

\* type(r).from_dict(data)
FromDict ==
    /\ ret.op = "to_dict"
    /\ \E made \in {from_dict(ret.params[1].class, ret.returned[1])} :
          ret' = [ret EXCEPT !.op = "from_dict",
                             !.raised = made.raised,
                             !.returned = IF made.raised THEN <<>> ELSE <<made>>]
    /\ UNCHANGED <<pc, engine, student, catalog, trace, threads>>

\* a valid record is serialised and reconstructed
SpecRoundTrip == InitRoundTrip /\ [][ToDict \/ FromDict]_vars

----------------------------------------------------------------------------
(* Calls in flight.  Two threads, a and b, call into one engine and one     *)
(* student.  A step is what a call does between two points at which the    *)
(* other thread can run: it reads or writes one field of the engine or of  *)
(* the student, and keeps what it read in the local variables of its       *)
(* frame.  The callers either take a lock around each call or do not.      *)

Threads == {"a", "b"}

\* the order in which the weighted sum of _calculate_score reads self.weights
ComponentOrder ==
    <<"learning_style", "difficulty", "cognitive_load", "knowledge_gap", "engagement">>

\* best_content = None, best_score = -np.inf, best_components = {}
NoBest ==
    [raised |-> FALSE, score |-> NEG_INF, content |-> "None", components |-> <<>>]

\* the frame of a call that has not started
Frame(op, locked) ==
    [op |-> op, at |-> IF locked THEN "acquire" ELSE "begin",
     ids |-> <<>>, topics |-> <<>>, weights |-> <<>>, observation |-> <<>>,
     content |-> "None",
     eligible |-> <<>>, knowledge_level |-> 0, i |-> 0, k |-> 0, scores |-> <<>>,
     acc |-> 0, used |-> <<>>, weighed |-> <<>>, best |-> NoBest, tmp |-> <<>>,
     new_mastery |-> 0, history |-> "recent_performance",
     raised |-> FALSE, returned |-> "None", returned_scores |-> <<>>]

SelectFrame(ids, locked) ==
    [Frame("select", locked) EXCEPT !.ids = ids, !.topics = FullTopics]

SetWeightsFrame(w, locked) == [Frame("set_weights", locked) EXCEPT !.weights = w]

ApplyFrame(i, locked) ==
    [Frame("apply", locked) EXCEPT !.observation = i[1], !.content = i[2]]

\* both candidates eligible for a fresh student, or none
SharedLists == {<<"c1", "c2">>, <<"c3">>}

\* the weights the shared engine starts with and those set_weights is given
OldWeights == TolWeights
NewWeights == {ALGORITHM_CONFIG.weights, LowWeights}

\* a student whose two histories are full
FullStudent == [VeteranStudent EXCEPT !.engagement_history = Append(@, 9750)]

\* who calls what on whom: two selects, a select and a set_weights, two applies
Scenarios(locked) ==
    {<<FreshStudent, SelectFrame(x, locked), SelectFrame(y, locked)>> :
        x, y \in SharedLists}
    \cup {<<FreshStudent, SelectFrame(x, locked), SetWeightsFrame(w, locked)>> :
        x \in SharedLists, w \in NewWeights}
    \cup {<<FullStudent, ApplyFrame(i, locked), ApplyFrame(j, locked)>> :
        i, j \in Interactions}

InitShared ==
    /\ pc = "ready"
    /\ engine = NewEngine(<<OldWeights>>, CHOOSE p \in ParamInputs : p.zpd_delta = <<>>)
    /\ catalog = Catalog
    /\ ret = NoCall
    /\ \E locked \in BOOLEAN : \E sc \in Scenarios(locked) :
           /\ student = sc[1]
           /\ threads = [locked |-> locked, lock |-> "free", a |-> sc[2], b |-> sc[3]]
    /\ trace = [performance |-> student.recent_performance,
                engagement |-> student.engagement_history,
                calls |-> 0]

\* where a call goes after its last step
End == IF threads.locked THEN "release" ELSE "done"

\* the callers' mutual exclusion around a call
Acquire(t) ==
    /\ threads[t].at = "acquire"
    /\ threads.lock = "free"
    /\ threads' = [threads EXCEPT !.lock = t, ![t].at = "begin"]
    /\ UNCHANGED <<pc, engine, student, catalog, ret, trace>>

Release(t) ==
    /\ threads[t].at = "release"
    /\ threads' = [threads EXCEPT !.lock = "free", ![t].at = "done"]
    /\ UNCHANGED <<pc, engine, student, catalog, ret, trace>>

\* select_optimal_content, first step: the filter, and the fallback when nothing
\* is eligible; neither reads a field another call writes
SelectFilter(t) ==
    LET f == threads[t]
        available_content == [i \in 1..Len(f.ids) |-> catalog[f.ids[i]]]
        eligible_content ==
            filter_eligible_content(available_content, student, f.topics, engine)
    IN  /\ f.op = "select"
        /\ f.at = "begin"
        /\ threads' =
               IF eligible_content = <<>>
               THEN [threads EXCEPT
                        ![t].at = End,
                        ![t].raised = Fallback(available_content, engine).raised,
                        ![t].returned = Fallback(available_content, engine).content]
               ELSE [threads EXCEPT
                        ![t].at = "score",
                        ![t].eligible = eligible_content,
                        ![t].knowledge_level = KnowledgeLevel(student, f.topics),
                        ![t].i = 1]
        /\ UNCHANGED <<pc, engine, student, catalog, ret, trace>>

\* _calculate_score for the candidate at position i: the six scores; the
\* exploration bonus reads self.time_step
SelectComponents(t) ==
    LET f == threads[t]
    IN  /\ f.op = "select"
        /\ f.at = "score"
        /\ threads' = [threads EXCEPT
                          ![t].at = "weigh",
                          ![t].scores = component_scores(f.eligible[f.i], student,
                                                         f.knowledge_level, engine),
                          ![t].k = 1,
                          ![t].acc = 0,
                          ![t].used = <<>>]
        /\ UNCHANGED <<pc, engine, student, catalog, ret, trace>>

\* a faulty term that takes the weight of the first component for every score
SelectWeighFirst(t) ==
    LET f == threads[t]
        name == ComponentOrder[f.k]
        first == ComponentOrder[1]
    IN  /\ f.op = "select"
        /\ f.at = "weigh"
        /\ threads' =
               IF first \notin DOMAIN engine.weights
               THEN [threads EXCEPT ![t].at = End, ![t].raised = TRUE]
               ELSE [threads EXCEPT
                        ![t].at = IF f.k = Len(ComponentOrder) THEN "compare"
                                  ELSE "weigh",
                        ![t].k = f.k + 1,
                        ![t].acc = f.acc + Mul(engine.weights[first], f.scores[name]),
                        ![t].used = [n \in DOMAIN f.used \cup {name} |->
                                        IF n = name THEN engine.weights[first]
                                        ELSE f.used[n]]]
        /\ UNCHANGED <<pc, engine, student, catalog, ret, trace>>

\* one term of the weighted sum: self.weights[name] * score, name being the k-th
\* component; self.weights is read anew for each term
SelectWeigh(t) ==
    LET f == threads[t]
        name == ComponentOrder[f.k]
    IN  /\ f.op = "select"
        /\ f.at = "weigh"
        /\ threads' =
               IF name \notin DOMAIN engine.weights
               THEN [threads EXCEPT ![t].at = End, ![t].raised = TRUE]
               ELSE [threads EXCEPT
                        ![t].at = IF f.k = Len(ComponentOrder) THEN "compare"
                                  ELSE "weigh",
                        ![t].k = f.k + 1,
                        ![t].acc = f.acc + Mul(engine.weights[name], f.scores[name]),
                        ![t].used = [n \in DOMAIN f.used \cup {name} |->
                                        IF n = name THEN engine.weights[name]
                                        ELSE f.used[n]]]
        /\ UNCHANGED <<pc, engine, student, catalog, ret, trace>>

\* the end of _calculate_score and `if score > best_score`
SelectCompare(t) ==
    LET f == threads[t]
        total_score == f.acc + f.scores.exploration
        r == [raised |-> FALSE, total |-> total_score,
              components |-> [n \in ScoreNames |->
                                 IF n = "total" THEN total_score ELSE f.scores[n]]]
    IN  /\ f.op = "select"
        /\ f.at = "compare"
        /\ threads' = [threads EXCEPT
                          ![t].at = IF f.i = Len(f.eligible) THEN "read_step"
                                    ELSE "score",
                          ![t].i = f.i + 1,
                          ![t].best = Better(f.best, f.eligible[f.i], r),
                          ![t].weighed = Append(f.weighed, f.used)]
        /\ UNCHANGED <<pc, engine, student, catalog, ret, trace>>

\* self.time_step += 1, the read
SelectReadStep(t) ==
    LET f == threads[t]
    IN  /\ f.op = "select"
        /\ f.at = "read_step"
        /\ threads' = [threads EXCEPT ![t].at = "write_step",
                                      ![t].tmp = engine.time_step]
        /\ UNCHANGED <<pc, engine, student, catalog, ret, trace>>

\* a faulty write that stores the value read
SelectWriteStepStale(t) ==
    LET f == threads[t]
    IN  /\ f.op = "select"
        /\ f.at = "write_step"
        /\ engine' = [engine EXCEPT !.time_step = f.tmp]
        /\ threads' = [threads EXCEPT ![t].at = End,
                                      ![t].returned = f.best.content,
                                      ![t].returned_scores = f.best.components]
        /\ UNCHANGED <<pc, student, catalog, ret, trace>>

\* self.time_step += 1, the write, and the return
SelectWriteStep(t) ==
    LET f == threads[t]
    IN  /\ f.op = "select"
        /\ f.at = "write_step"
        /\ engine' = [engine EXCEPT !.time_step = f.tmp + 1]
        /\ threads' = [threads EXCEPT ![t].at = End,
                                      ![t].returned = f.best.content,
                                      ![t].returned_scores = f.best.components]
        /\ UNCHANGED <<pc, student, catalog, ret, trace>>

\* set_weights: the check of the sum, which reads only the argument, and the one
\* assignment self.weights = weights
SetWeightsStore(t) ==
    LET f == threads[t]
    IN  /\ f.op = "set_weights"
        /\ f.at = "begin"
        /\ IF WeightSumRejected(f.weights)
           THEN /\ engine' = engine
                /\ threads' = [threads EXCEPT ![t].at = End, ![t].raised = TRUE]
           ELSE /\ engine' = [engine EXCEPT !.weights = f.weights]
                /\ threads' = [threads EXCEPT ![t].at = End]
        /\ UNCHANGED <<pc, student, catalog, ret, trace>>

\* update_student_state: current_mastery is read and new_mastery computed
ApplyReadMastery(t) ==
    LET f == threads[t]
        current_mastery == Get(student.knowledge_state, f.observation.topic_id, 0)
    IN  /\ f.op = "apply"
        /\ f.at = "begin"
        /\ threads' = [threads EXCEPT
                          ![t].at = "write_mastery",
                          ![t].new_mastery =
                              update_mastery(current_mastery, f.observation.correct)]
        /\ UNCHANGED <<pc, engine, student, catalog, ret, trace>>

\* student.knowledge_state[observation.topic_id] = new_mastery
ApplyWriteMastery(t) ==
    LET f == threads[t]
    IN  /\ f.op = "apply"
        /\ f.at = "write_mastery"
        /\ student' = [student EXCEPT
                          !.knowledge_state =
                              [x \in DOMAIN student.knowledge_state
                                      \cup {f.observation.topic_id} |->
                                  IF x = f.observation.topic_id THEN f.new_mastery
                                  ELSE student.knowledge_state[x]]]
        /\ threads' = [threads EXCEPT ![t].at = "check_mastered"]
        /\ UNCHANGED <<pc, engine, catalog, ret, trace>>

\* if new_mastery >= 0.8 and observation.topic_id not in student.mastered_topics
ApplyCheckMastered(t) ==
    LET f == threads[t]
        joins == UpdateMastered(student.mastered_topics, f.observation.topic_id,
                                f.new_mastery) # student.mastered_topics
    IN  /\ f.op = "apply"
        /\ f.at = "check_mastered"
        /\ threads' = [threads EXCEPT
                          ![t].at = IF joins THEN "append_mastered" ELSE "append",
                          ![t].history = "recent_performance"]
        /\ UNCHANGED <<pc, engine, student, catalog, ret, trace>>

\* student.mastered_topics.append(observation.topic_id)
ApplyAppendMastered(t) ==
    LET f == threads[t]
    IN  /\ f.op = "apply"
        /\ f.at = "append_mastered"
        /\ student' = [student EXCEPT
                          !.mastered_topics = Append(@, f.observation.topic_id)]
        /\ threads' = [threads EXCEPT ![t].at = "append",
                                      ![t].history = "recent_performance"]
        /\ UNCHANGED <<pc, engine, catalog, ret, trace>>

\* the value a call appends to the history it is at
Appended(f) ==
    IF f.history = "recent_performance"
    THEN IF f.observation.correct THEN ONE ELSE 0
    ELSE f.observation.engagement_score

\* student.recent_performance.append(performance_score), and the same statement
\* for engagement_history: the list is extended in place
ApplyAppend(t) ==
    LET f == threads[t]
    IN  /\ f.op = "apply"
        /\ f.at = "append"
        /\ student' = [student EXCEPT ![f.history] = Append(@, Appended(f))]
        /\ threads' = [threads EXCEPT ![t].at = "check_len"]
        /\ trace' = IF f.history = "recent_performance"
                    THEN [trace EXCEPT !.performance = Append(@, Appended(f))]
                    ELSE [trace EXCEPT !.engagement = Append(@, Appended(f))]
        /\ UNCHANGED <<pc, engine, catalog, ret>>

\* where a call goes once it is through with the history it is at
AfterHistory(f) == IF f.history = "recent_performance" THEN "read_load" ELSE "read_total"

\* if len(student.recent_performance) > 20
ApplyCheckLen(t) ==
    LET f == threads[t]
    IN  /\ f.op = "apply"
        /\ f.at = "check_len"
        /\ threads' = [threads EXCEPT
                          ![t].at = IF Len(student[f.history]) > HistoryLimit
                                    THEN "slice" ELSE AfterHistory(f)]
        /\ UNCHANGED <<pc, engine, student, catalog, ret, trace>>

\* a faulty slice that takes the oldest entries, [:20]
ApplySliceOldest(t) ==
    LET f == threads[t]
    IN  /\ f.op = "apply"
        /\ f.at = "slice"
        /\ threads' = [threads EXCEPT
                          ![t].at = "store",
                          ![t].tmp = SubSeq(student[f.history], 1, HistoryLimit)]
        /\ UNCHANGED <<pc, engine, student, catalog, ret, trace>>

\* student.recent_performance[-20:], a new list
ApplySlice(t) ==
    LET f == threads[t]
    IN  /\ f.op = "apply"
        /\ f.at = "slice"
        /\ threads' = [threads EXCEPT
                          ![t].at = "store",
                          ![t].tmp = LastN(student[f.history], HistoryLimit)]
        /\ UNCHANGED <<pc, engine, student, catalog, ret, trace>>

\* student.recent_performance = that list
ApplyStore(t) ==
    LET f == threads[t]
    IN  /\ f.op = "apply"
        /\ f.at = "store"
        /\ student' = [student EXCEPT ![f.history] = f.tmp]
        /\ threads' = [threads EXCEPT ![t].at = AfterHistory(f), ![t].tmp = <<>>]
        /\ UNCHANGED <<pc, engine, catalog, ret, trace>>

\* student.current_cognitive_load * decay_factor + content.intrinsic_load * 0.2
ApplyReadLoad(t) ==
    LET f == threads[t]
    IN  /\ f.op = "apply"
        /\ f.at = "read_load"
        /\ threads' = [threads EXCEPT
                          ![t].at = "write_load",
                          ![t].tmp = Mul(student.current_cognitive_load, decay_factor)
                                     + Mul(catalog[f.content].intrinsic_load,
                                           load_factor)]
        /\ UNCHANGED <<pc, engine, student, catalog, ret, trace>>

\* the two assignments to student.current_cognitive_load; the second clips what
\* the first stored, and np.clip leaves every value a call can store as it is
ApplyWriteLoad(t) ==
    LET f == threads[t]
    IN  /\ f.op = "apply"
        /\ f.at = "write_load"
        /\ student' = [student EXCEPT !.current_cognitive_load = Clip(f.tmp, 0, ONE)]
        /\ threads' = [threads EXCEPT ![t].at = "append", ![t].tmp = <<>>,
                                      ![t].history = "engagement_history"]
        /\ UNCHANGED <<pc, engine, catalog, ret, trace>>

\* student.total_interactions += 1, the read
ApplyReadTotal(t) ==
    LET f == threads[t]
    IN  /\ f.op = "apply"
        /\ f.at = "read_total"
        /\ threads' = [threads EXCEPT ![t].at = "write_total",
                                      ![t].tmp = student.total_interactions]
        /\ UNCHANGED <<pc, engine, student, catalog, ret, trace>>

\* student.total_interactions += 1, the write, and the return
ApplyWriteTotal(t) ==
    LET f == threads[t]
    IN  /\ f.op = "apply"
        /\ f.at = "write_total"
        /\ student' = [student EXCEPT !.total_interactions = f.tmp + 1]
        /\ threads' = [threads EXCEPT ![t].at = End, ![t].tmp = <<>>,
                                      ![t].returned = student.student_id]
        /\ trace' = [trace EXCEPT !.calls = @ + 1]
        /\ UNCHANGED <<pc, engine, catalog, ret>>

NextShared ==
    \E t \in Threads :
        \/ Acquire(t)
        \/ Release(t)
        \/ SelectFilter(t)
        \/ SelectComponents(t)
        \/ SelectWeigh(t)
        \/ SelectCompare(t)
        \/ SelectReadStep(t)
        \/ SelectWriteStep(t)
        \/ SetWeightsStore(t)
        \/ ApplyReadMastery(t)
        \/ ApplyWriteMastery(t)
        \/ ApplyCheckMastered(t)
        \/ ApplyAppendMastered(t)
        \/ ApplyAppend(t)
        \/ ApplyCheckLen(t)
        \/ ApplySlice(t)
        \/ ApplyStore(t)
        \/ ApplyReadLoad(t)
        \/ ApplyWriteLoad(t)
        \/ ApplyReadTotal(t)
        \/ ApplyWriteTotal(t)

\* two calls in flight on a shared engine and student
SpecShared == InitShared /\ [][NextShared]_vars

----------------------------------------------------------------------------
(* The claims *)

\* the candidates of the last select call
Candidates == [i \in 1..Len(ret.available_content) |-> catalog[ret.available_content[i]]]

\* the student's mastery of a topic, an absent entry counting as 0.0
Mastery(topic_id) ==
    IF topic_id \in DOMAIN student.knowledge_state
    THEN student.knowledge_state[topic_id] ELSE 0

\* the projected cognitive load of a content for the student:
\* clamp(intrinsic_load * difficulty + min(0.3 * current load, 0.3), 0, 1)
ProjectedLoad(c) ==
    LET fatigue == (student.current_cognitive_load * 3000) \div ONE
        raw == (c.intrinsic_load * c.difficulty) \div ONE
               + (IF fatigue < 3000 THEN fatigue ELSE 3000)
    IN  IF raw > ONE THEN ONE ELSE IF raw < 0 THEN 0 ELSE raw

\* the three hard constraints on a content, under the topic map of the last call
PrerequisitesHold(c) ==
    c.topic_id \in DOMAIN ret.topics =>
        \A p \in ret.topics[c.topic_id].prerequisites : Mastery(p) >= 7000

WithinZpd(c) ==
    /\ Mastery(c.topic_id) - 1000 <= c.difficulty
    /\ c.difficulty <= Mastery(c.topic_id) + engine.zpd_delta + 1000

LoadAllowed(c) == ProjectedLoad(c) <= engine.cl_max

MeetsConstraints(c) == PrerequisitesHold(c) /\ WithinZpd(c) /\ LoadAllowed(c)

\* the positions of the candidates that meet the constraints
EligiblePositions == {i \in 1..Len(Candidates) : MeetsConstraints(Candidates[i])}

\* the engine as the last select call found it, when that call returned scores
EngineAtCall == [engine EXCEPT !.time_step = engine.time_step - 1]

\* the score of the candidate at position i in the last select call
ScoreAt(i) ==
    calculate_score(Candidates[i], student, KnowledgeLevel(student, ret.topics),
                    EngineAtCall)

\* C1: for every non-empty candidate list select_optimal_content does not raise and
\* returns a member of the list; when no candidate meets the constraints it returns
\* the first candidate of least difficulty and an empty score mapping.
C1_SelectReturnsMember ==
    (ret.op = "select" /\ ret.available_content # <<>>) =>
        /\ ~ret.raised
        /\ \E i \in 1..Len(Candidates) : ret.content = Candidates[i].id
        /\ EligiblePositions = {} =>
              /\ ret.scores = <<>>
              /\ \E i \in 1..Len(Candidates) :
                    /\ ret.content = Candidates[i].id
                    /\ \A j \in 1..Len(Candidates) :
                          Candidates[i].difficulty <= Candidates[j].difficulty
                    /\ \A j \in 1..(i - 1) :
                          Candidates[j].difficulty > Candidates[i].difficulty

\* C1, for an engine whose weight mapping holds the five component names
C1_SelectReturnsMemberFiveWeights ==
    ComponentNames \subseteq DOMAIN engine.weights => C1_SelectReturnsMember

C3_TimeStepEveryCall ==
    [][(ret'.op = "select" /\ ~ret'.raised) =>
           engine'.time_step = engine.time_step + 1]_vars

\* C4: when a candidate meets the constraints, select_optimal_content returns the
\* first candidate of greatest total among those that do, and the mapping holds the
\* six component scores and the total of that candidate.
C4_SelectReturnsArgmax ==
    (ret.op = "select" /\ EligiblePositions # {}) =>
        /\ ~ret.raised
        /\ DOMAIN ret.scores = ScoreNames
        /\ \E i \in EligiblePositions :
              /\ ret.content = Candidates[i].id
              /\ ret.scores = ScoreAt(i).components
              /\ ret.scores["total"] =
                    (engine.weights["learning_style"] * ret.scores["learning_style"])
                        \div ONE
                    + (engine.weights["difficulty"] * ret.scores["difficulty"])
                        \div ONE
                    + (engine.weights["cognitive_load"] * ret.scores["cognitive_load"])
                        \div ONE
                    + (engine.weights["knowledge_gap"] * ret.scores["knowledge_gap"])
                        \div ONE
                    + (engine.weights["engagement"] * ret.scores["engagement"])
                        \div ONE
                    + ret.scores["exploration"]
              /\ \A j \in EligiblePositions : ScoreAt(j).total <= ScoreAt(i).total
              /\ \A j \in EligiblePositions :
                    j < i => ScoreAt(j).total < ScoreAt(i).total

\* C4, for an engine whose weight mapping holds the five component names
C4_SelectReturnsArgmaxFiveWeights ==
    ComponentNames \subseteq DOMAIN engine.weights => C4_SelectReturnsArgmax

\* the sum of a weight mapping's values
WeightSum(w) == SumOver(w, DOMAIN w)

\* the sum differs from 1.0 by more than 0.01
OffByMoreThanTolerance(w) == WeightSum(w) - ONE > 100 \/ ONE - WeightSum(w) > 100

\* the last call was a construction or a set_weights call given a weight mapping
GivenWeights == ret.op \in {"init", "set_weights"} /\ ret.weights # <<>>

\* C5: construction and set_weights both raise for every weight mapping whose sum
\* differs from 1.0 by more than 0.01, the empty mapping included, and both accept
\* every mapping whose sum is exactly 1.0.
C5_BothValidateSum ==
    GivenWeights =>
        /\ OffByMoreThanTolerance(ret.weights[1]) => ret.raised
        /\ WeightSum(ret.weights[1]) = ONE => ~ret.raised

\* C5, for set_weights alone
C5_SetWeightsValidatesSum == ret.op = "set_weights" => C5_BothValidateSum

\* C6: the engine's weight mapping sums to 1.0 within 0.01 whatever calls were
\* made; a rejected set_weights call leaves it as it was, an accepted one replaces
\* it by the mapping given, and select and apply calls leave it alone.
C6_WeightsStayNormalised ==
    [][/\ pc' = "ready" => ~OffByMoreThanTolerance(engine'.weights)
       /\ ret'.op = "set_weights" =>
             engine'.weights = IF ret'.raised THEN engine.weights ELSE ret'.weights[1]
       /\ ret'.op \in {"select", "apply"} => engine'.weights = engine.weights]_vars

\* C6's case: set_weights rejected a mapping after an earlier call had replaced
\* the weights the engine was constructed with
C6_Witness ==
    /\ ret.op = "set_weights"
    /\ ret.raised
    /\ OffByMoreThanTolerance(ret.weights[1])
    /\ engine.weights = TolWeights

\* the history h holds the last min(20, n) of the n values of log, in their order
LastTwenty(h, log) ==
    /\ Len(h) = IF Len(log) < 20 THEN Len(log) ELSE 20
    /\ \A i \in 1..Len(h) : h[i] = log[Len(log) - Len(h) + i]

\* C7: recent_performance and engagement_history never exceed 20 entries and hold
\* the last min(20, n) values of the initial sequence followed by the values the
\* update_student_state calls appended.
C7_HistoriesSlide ==
    /\ Len(student.recent_performance) <= 20
    /\ Len(student.engagement_history) <= 20
    /\ LastTwenty(student.recent_performance, trace.performance)
    /\ LastTwenty(student.engagement_history, trace.engagement)

\* C7's case: a call appended to a full history, whose oldest value was dropped,
\* and to one that had room
C7_Witness ==
    /\ ret.op = "apply"
    /\ Len(trace.performance) > 20
    /\ Len(trace.engagement) = 20

\* C8: every topic of mastered_topics has mastery >= 0.8, in every state
\* update_student_state calls reach from a student with no knowledge.
C8_MasteredTopicsAreMastered ==
    \A i \in 1..Len(student.mastered_topics) :
        Mastery(student.mastered_topics[i]) >= 8000

NoDuplicates(x) == \A i, j \in 1..Len(x) : i # j => x[i] # x[j]

\* C9: an update_student_state call adds 1 to total_interactions and leaves
\* mastered_topics as it was or with one id appended, never with a duplicate;
\* select_optimal_content changes neither.
C9_MonotoneFields ==
    [][/\ ret'.op = "apply" =>
             /\ student'.total_interactions = student.total_interactions + 1
             /\ \/ student'.mastered_topics = student.mastered_topics
                \/ \E t \in {"t1", "t2", "t3"} :
                       student'.mastered_topics = Append(student.mastered_topics, t)
             /\ NoDuplicates(student.mastered_topics) =>
                    NoDuplicates(student'.mastered_topics)
       /\ ret'.op = "select" =>
             /\ student'.total_interactions = student.total_interactions
             /\ student'.mastered_topics = student.mastered_topics]_vars

\* C9's case: a correct observation on a topic already in mastered_topics, whose
\* mastery is again above 0.8, after which the list is what it was
C9_Witness ==
    /\ ret.op = "apply"
    /\ ret.observation[1].correct
    /\ Mastery(ret.observation[1].topic_id) >= 8000
    /\ student.mastered_topics = VeteranStudent.mastered_topics
    /\ \E i \in 1..Len(student.mastered_topics) :
          student.mastered_topics[i] = ret.observation[1].topic_id

InUnitInterval(x) == 0 <= x /\ x <= ONE

\* C10: current_cognitive_load and every mastery stay in [0,1], and each
\* update_student_state call sets current_cognitive_load to
\* clamp(0.8 * old + 0.2 * content.intrinsic_load, 0, 1).
C10_LoadAndMasteryInRange ==
    [][ret'.op = "apply" =>
           /\ InUnitInterval(student'.current_cognitive_load)
           /\ \A t \in DOMAIN student'.knowledge_state :
                  InUnitInterval(student'.knowledge_state[t])
           /\ LET raw == (student.current_cognitive_load * 8000) \div ONE
                         + (catalog[ret'.content].intrinsic_load * 2000) \div ONE
              IN  student'.current_cognitive_load =
                      IF raw < 0 THEN 0 ELSE IF raw > ONE THEN ONE ELSE raw]_vars

\* C10's case: the load has decayed from a positive value and a mastery has moved
\* both up and down
C10_Witness ==
    /\ ret.op = "apply"
    /\ trace.calls >= 3
    /\ student.current_cognitive_load > 0
    /\ \E i, j \in 1..Len(trace.performance) :
          trace.performance[i] = ONE /\ trace.performance[j] = 0

\* C11: an update_student_state call stores update_mastery(prior, correct) under
\* observation.topic_id, the prior being 0.0 for a topic without entry, whatever
\* topic the content names; it leaves the other masteries, student_id and
\* learning_style_preferences alone and returns the student it was given.
C11_OneMasteryChanges ==
    [][ret'.op = "apply" =>
           LET o == ret'.observation[1]
               prior == IF o.topic_id \in DOMAIN student.knowledge_state
                        THEN student.knowledge_state[o.topic_id] ELSE 0
           IN  /\ DOMAIN student'.knowledge_state =
                      DOMAIN student.knowledge_state \cup {o.topic_id}
               /\ student'.knowledge_state[o.topic_id] = update_mastery(prior, o.correct)
               /\ \A t \in DOMAIN student.knowledge_state \ {o.topic_id} :
                      student'.knowledge_state[t] = student.knowledge_state[t]
               /\ student'.student_id = student.student_id
               /\ student'.learning_style_preferences =
                      student.learning_style_preferences
               /\ ret'.returned = <<student'>>]_vars

\* C11's case: the observation was on a topic the student had no entry for, and
\* the content given with it is of another topic
C11_Witness ==
    /\ ret.op = "apply"
    /\ trace.calls = 1
    /\ student.student_id = FreshStudent.student_id
    /\ ret.observation[1].topic_id # catalog[ret.content].topic_id
    /\ DOMAIN student.knowledge_state = {ret.observation[1].topic_id}

\* the engine's fields other than time_step
Settings(e) == [e EXCEPT !.time_step = 0]

\* C12: select_optimal_content changes nothing but the engine's time_step: not
\* the student, the candidates, the topic map or the weights; and
\* update_student_state changes only the student: not the content, the
\* time_step or the weights.
C12_CallsTouchOnlyTheirOwn ==
    [][/\ ret'.op = "select" =>
             /\ student' = student
             /\ catalog' = catalog
             /\ ret'.topics \in TopicMaps
             /\ Settings(engine') = Settings(engine)
       /\ ret'.op = "apply" =>
             /\ catalog' = catalog
             /\ engine' = engine]_vars

\* C12's case: a select call scored candidates for a student with a history and
\* moved the time_step
C12_Witness ==
    /\ ret.op = "select"
    /\ ret.scores # <<>>
    /\ engine.time_step = 1
    /\ student.total_interactions > 0

\* C13: select_optimal_content and update_student_state complete without
\* raising for every input, the empty candidate list included.
C13_CoreOperationsTotal == ret.op \in {"select", "apply"} => ~ret.raised

\* C13, for the calls given a candidate list that is not empty by an engine whose
\* weight mapping holds the five component names
C13_TotalOnCandidates ==
    (ret.available_content # <<>> /\ ComponentNames \subseteq DOMAIN engine.weights)
        => C13_CoreOperationsTotal

\* C13, for the select calls given the empty list: each of them raises
C13_EmptyListRaises ==
    (ret.op = "select" /\ ret.available_content = <<>>) => ret.raised

\* both threads ran the operation op and returned
BothDone(op) ==
    /\ threads # <<>>
    /\ \A t \in Threads : threads[t].op = op /\ threads[t].at = "done"

\* the select calls in flight that scored candidates and returned
Scored == {t \in Threads : threads[t].op = "select" /\ threads[t].at = "done"
                           /\ threads[t].returned_scores # <<>>}

\* C14: after two select calls on one engine have returned, time_step is higher by
\* the number of calls that scored candidates when the callers held a lock around
\* each call, and without the lock by that number or by less, by 1 at least: two
\* calls that both scored can leave it 1 higher instead of 2.
C14_TimeStepRace ==
    BothDone("select") =>
        /\ engine.time_step <= Cardinality(Scored)
        /\ Scored # {} => engine.time_step >= 1
        /\ threads.locked => engine.time_step = Cardinality(Scored)

\* C14's case: two calls without a lock both scored candidates and returned, and
\* time_step is 1
C14_Witness ==
    /\ BothDone("select")
    /\ ~threads.locked
    /\ Scored = Threads
    /\ engine.time_step = 1

\* C15: after two update_student_state calls for one student have returned,
\* total_interactions is higher by 2 or, one increment lost, by 1; when the calls
\* were serialized it is higher by 2 and each history holds the last 20 of its
\* initial values followed by the two values appended.
C15_StudentRace ==
    BothDone("apply") =>
        /\ student.total_interactions \in {FullStudent.total_interactions + 1,
                                           FullStudent.total_interactions + 2}
        /\ Len(trace.performance) = Len(FullStudent.recent_performance) + 2
        /\ Len(trace.engagement) = Len(FullStudent.engagement_history) + 2
        /\ threads.locked =>
              /\ student.total_interactions = FullStudent.total_interactions + 2
              /\ LastTwenty(student.recent_performance, trace.performance)
              /\ LastTwenty(student.engagement_history, trace.engagement)

\* C15's case: two calls without serialization returned, one increment of
\* total_interactions is lost, and engagement_history is what the call of thread
\* a alone leaves: the value thread b appended is gone
C15_Witness ==
    /\ BothDone("apply")
    /\ ~threads.locked
    /\ student.total_interactions = FullStudent.total_interactions + 1
    /\ threads.a.observation.engagement_score # threads.b.observation.engagement_score
    /\ LastTwenty(student.engagement_history,
                  Append(FullStudent.engagement_history,
                         threads.a.observation.engagement_score))

\* thread t ran select and the other thread a set_weights that was accepted
WeighedDuringSetWeights(t) ==
    /\ threads # <<>>
    /\ threads[t].op = "select"
    /\ threads[t].at = "done"
    /\ \E u \in Threads : threads[u].op = "set_weights" /\ threads[u].at = "done"
                          /\ ~threads[u].raised

\* the total of the scores under the weights w
TotalUnder(w, scores) ==
    (w["learning_style"] * scores["learning_style"]) \div ONE
    + (w["difficulty"] * scores["difficulty"]) \div ONE
    + (w["cognitive_load"] * scores["cognitive_load"]) \div ONE
    + (w["knowledge_gap"] * scores["knowledge_gap"]) \div ONE
    + (w["engagement"] * scores["engagement"]) \div ONE
    + scores["exploration"]

\* C16: in a select call that ran while set_weights replaced the weights, each
\* weight a candidate's total was computed with is that component's weight in the
\* old or in the new mapping, whatever the other components' weights came from,
\* and the returned total is the sum under the weights read for the winner; when
\* the callers held a lock around each call, all candidates were scored under one
\* of the two mappings.
C16_WeightsRace ==
    \A t \in Threads :
        WeighedDuringSetWeights(t) =>
            LET f == threads[t]
            IN  /\ \A i \in 1..Len(f.weighed) : \A n \in ComponentNames :
                       f.weighed[i][n] \in {OldWeights[n], engine.weights[n]}
                /\ f.returned_scores # <<>> =>
                       \E i \in 1..Len(f.weighed) :
                           /\ f.eligible[i].id = f.returned
                           /\ f.returned_scores["total"] =
                                  TotalUnder(f.weighed[i], f.returned_scores)
                /\ threads.locked =>
                       \A i \in 1..Len(f.weighed) :
                           /\ f.weighed[i] \in {OldWeights, engine.weights}
                           /\ f.weighed[i] = f.weighed[1]

\* C16's case: without a lock, one candidate was scored with weights from both
\* mappings and the two candidates of the call under different weights
C16_Witness ==
    \E t \in Threads :
        /\ WeighedDuringSetWeights(t)
        /\ ~threads.locked
        /\ \E i \in 1..Len(threads[t].weighed) :
              threads[t].weighed[i] \notin {OldWeights, engine.weights}
        /\ \E i, j \in 1..Len(threads[t].weighed) :
              threads[t].weighed[i] # threads[t].weighed[j]

\* the Bayes posterior of mastery m after an outcome: P(M | correct) with slip
\* 0.1 and guess 0.2, P(M | incorrect) likewise, m itself when the denominator is 0
Posterior(m, correct) ==
    LET num == IF correct THEN (9000 * m) \div ONE ELSE (1000 * m) \div ONE
        den == IF correct THEN num + (2000 * (ONE - m)) \div ONE
               ELSE num + (8000 * (ONE - m)) \div ONE
    IN  IF den = 0 THEN m ELSE (num * ONE) \div den

\* posterior + (1 - posterior) * p_learn with p_learn 0.3, clamped to [0,1]
Learned(m, correct) ==
    LET raw == Posterior(m, correct) + ((ONE - Posterior(m, correct)) * 3000) \div ONE
    IN  IF raw < 0 THEN 0 ELSE IF raw > ONE THEN ONE ELSE raw

\* C17: for every prior mastery in [0,1] a correct observation leaves a mastery
\* at least that of an incorrect one, and the mastery update_student_state stores
\* is posterior + (1 - posterior) * p_learn, clamped to [0,1].
C17_CorrectAtLeastIncorrect ==
    [][ret'.op = "apply" =>
           LET o == ret'.observation[1]
               prior == IF o.topic_id \in DOMAIN student.knowledge_state
                        THEN student.knowledge_state[o.topic_id] ELSE 0
           IN  /\ InUnitInterval(prior)
               /\ update_mastery(prior, TRUE) >= update_mastery(prior, FALSE)
               /\ student'.knowledge_state[o.topic_id] = Learned(prior, o.correct)
               /\ update_mastery(prior, ~o.correct) = Learned(prior, ~o.correct)]_vars

\* C17's case: an incorrect observation on a prior strictly inside (0,1) left a
\* mastery below the one a correct observation would have left
C17_Witness ==
    /\ ret.op = "apply"
    /\ trace.calls = 1
    /\ ~ret.observation[1].correct
    /\ \E m \in Priors \ {0, ONE} :
          /\ student.knowledge_state["t1"] = update_mastery(m, FALSE)
          /\ update_mastery(m, FALSE) < update_mastery(m, TRUE)

\* the mastery of topic t in the mapping m, 0 when m has no entry for it
MasteryIn(m, t) == IF t \in DOMAIN m THEN m[t] ELSE 0

\* C18: estimate_knowledge_level returns 0 when topic_masteries is empty or the
\* total weight is 0, and otherwise the sum over the keys of topic_weights of
\* mastery * weight divided by the sum of the weights; for a single weighted topic
\* that has a mastery it returns that mastery, whatever the positive weight.
C18_WeightedMean ==
    ret.op = "estimate_knowledge_level" =>
        LET m == student.knowledge_state
            w == ret.topic_weights
            total == SumOver(w, DOMAIN w)
            products == [t \in DOMAIN w |-> (MasteryIn(m, t) * w[t]) \div ONE]
        IN  /\ (DOMAIN m = {} \/ total = 0) => ret.returned[1] = 0
            /\ (DOMAIN m # {} /\ total # 0) =>
                   ret.returned[1] = (SumOver(products, DOMAIN w) * ONE) \div total
            /\ \A t \in DOMAIN m :
                   (DOMAIN w = {t} /\ w[t] > 0) => ret.returned[1] = m[t]

\* C18's case: the weights name a topic without mastery and leave out a topic
\* with one, and the level returned lies strictly between 0 and 1
C18_Witness ==
    /\ ret.op = "estimate_knowledge_level"
    /\ DOMAIN ret.topic_weights \ DOMAIN student.knowledge_state # {}
    /\ DOMAIN student.knowledge_state \ DOMAIN ret.topic_weights # {}
    /\ ret.returned[1] > 0
    /\ ret.returned[1] < ONE

\* the bonus of the content of the last exploration_bonus call had it been served
\* once more, and the bonus of that content one time_step later
BonusServedOnceMore ==
    exploration_bonus([catalog[ret.content] EXCEPT !.interaction_count = @ + 1],
                      student.total_interactions, engine.beta_0, engine.time_step)

BonusOneStepLater ==
    exploration_bonus(catalog[ret.content], student.total_interactions,
                      engine.beta_0, engine.time_step + 1)

\* C19: exploration_bonus is strictly decreasing in interaction_count and strictly
\* decreasing in time_step, the other arguments held fixed, for all their
\* non-negative values, total_interactions = 0 included.
C19_BonusStrictlyDecreasing ==
    ret.op = "exploration_bonus" =>
        /\ ret.returned[1] > BonusServedOnceMore
        /\ ret.returned[1] > BonusOneStepLater

\* C19, amended: the bonus is strictly decreasing in interaction_count and in
\* time_step when total_interactions >= 1, and is 0 for every interaction_count
\* and time_step when total_interactions = 0.
C19_BonusDecreasingOnceInteracted ==
    ret.op = "exploration_bonus" =>
        /\ student.total_interactions >= 1 =>
              /\ ret.returned[1] > BonusServedOnceMore
              /\ ret.returned[1] > BonusOneStepLater
        /\ student.total_interactions = 0 =>
              /\ ret.returned[1] = 0
              /\ BonusServedOnceMore = 0
              /\ BonusOneStepLater = 0

\* C19's case: the bonus of a content never served, for a student with
\* interactions: the step from interaction_count 0 to 1
C19_Witness ==
    /\ ret.op = "exploration_bonus"
    /\ catalog[ret.content].interaction_count = 0
    /\ student.total_interactions >= 1
    /\ engine.time_step >= 1
    /\ ret.returned[1] > BonusServedOnceMore

\* the arguments of the last constructor call hold a value out of its range
OutOfRangeGiven ==
    LET a == ret.params[1]
        unit(x) == 0 <= x /\ x <= ONE
    IN  \/ /\ ret.op = "Content"
           /\ ~unit(a.difficulty) \/ ~unit(a.intrinsic_load) \/ a.estimated_duration <= 0
        \/ /\ ret.op = "Observation"
           /\ ~unit(a.engagement_score) \/ a.time_spent < 0
        \/ /\ ret.op = "StudentState"
           /\ \/ ~unit(a.current_cognitive_load)
              \/ \E t \in DOMAIN a.knowledge_state : ~unit(a.knowledge_state[t])
              \/ /\ a.learning_style_preferences # <<>>
                 /\ LET total == SumOver(a.learning_style_preferences,
                                         DOMAIN a.learning_style_preferences)
                    IN  total - ONE > 100 \/ ONE - total > 100

\* C20: constructing a Content, an Observation or a StudentState with a value
\* out of its range raises, for the records the engine's select and apply
\* operate on.
C20_EngineRecordsValidated ==
    (ret.op \in {"Content", "Observation", "StudentState"}
     /\ ret.params[1].module = EngineRecords
     /\ OutOfRangeGiven) => ret.raised

\* C20, for the records of models/content.py and models/student.py: they raise
\* for the values out of range and for no others
C20_ValidatedRecordsReject ==
    (ret.op \in {"Content", "Observation", "StudentState"}
     /\ ret.params[1].module = "validated") => (ret.raised <=> OutOfRangeGiven)

\* C21: for every valid StudentState, Content (Quiz and CaseStudy included) and
\* Topic record r, from_dict(to_dict(r)) does not raise and yields a record of
\* the same class whose every field equals the field of r.
C21_RoundTrip ==
    ret.op = "from_dict" =>
        /\ ~ret.raised
        /\ ret.returned[1] = ret.params[1]

\* C21, for every class but Quiz: the round trip gives the record back
C21_RoundTripButQuiz ==
    (ret.op = "from_dict" /\ ret.params[1].class # "Quiz") =>
        /\ ~ret.raised
        /\ ret.returned[1] = ret.params[1]

\* C21, for Quiz: the reconstruction raises
C21_QuizRaises ==
    (ret.op = "from_dict" /\ ret.params[1].class = "Quiz") => ret.raised

\* the last three update_student_state calls had correct observations
ThreeCorrect ==
    /\ Len(trace.performance) >= 3
    /\ \A i \in 0..2 : trace.performance[Len(trace.performance) - i] = ONE

Mastered(t) ==
    /\ Get(student.knowledge_state, t, 0) >= MasteredAt
    /\ \E i \in 1..Len(student.mastered_topics) : student.mastered_topics[i] = t

Unmapped == {i \in 1..Len(Candidates) : Candidates[i].topic_id \notin DOMAIN ret.topics}

\* the last select call found a candidate eligible: it scored one
FoundEligible == ret.raised \/ ret.scores # <<>>

\* C23: a candidate whose topic_id has no entry in the topic map is never rejected
\* by the prerequisite constraint: it is eligible exactly when it is within the
\* ZPD and under the load limit.
C23_UnmappedTopicNoPrerequisites ==
    (ret.op = "select" /\ ret.available_content # <<>>) =>
        /\ (\E i \in Unmapped : WithinZpd(Candidates[i]) /\ LoadAllowed(Candidates[i]))
               => FoundEligible
        /\ (Unmapped = 1..Len(Candidates) /\ FoundEligible)
               => \E i \in Unmapped :
                      WithinZpd(Candidates[i]) /\ LoadAllowed(Candidates[i])

\* C23's case: c3, of topic t2, is returned with its scores under the map that
\* lacks t2, by a student who has not mastered t1, which t2 requires
C23_Witness ==
    /\ ret.op = "select"
    /\ ret.available_content = <<"c3">>
    /\ ret.topics = PartTopics
    /\ ~prerequisites_met(FullTopics["t2"], student, engine)
    /\ ret.content = "c3"
    /\ ret.scores # <<>>

\* the engine's weight mapping lacks one of the five component names
LacksComponent == ~(ComponentNames \subseteq DOMAIN engine.weights)

\* the last call, a select call, returned a candidate of its list
ReturnedCandidate ==
    /\ ~ret.raised
    /\ \E i \in 1..Len(ret.available_content) : ret.available_content[i] = ret.content

\* C24: set_weights accepts a mapping that sums to 1.0 within 0.01 and lacks a
\* component name; the select calls that follow raise when a candidate is
\* eligible and return when they take the fallback path.
C24_MissingNameFailsWhenScoring ==
    /\ (ret.op = "set_weights" /\ ~OffByMoreThanTolerance(ret.weights[1]))
           => (~ret.raised /\ engine.weights = ret.weights[1])
    /\ (ret.op = "select" /\ LacksComponent)
           => IF EligiblePositions # {} THEN ret.raised ELSE ReturnedCandidate

\* C24, for the select calls given a candidate list that is not empty
C24_MissingNameOnCandidates ==
    (ret.op = "select" => ret.available_content # <<>>)
        => C24_MissingNameFailsWhenScoring

\* C24's cases: under a mapping set_weights accepted without the name
\* cognitive_load, a select call raised and another took the fallback and returned
C24_ScoringRaised ==
    /\ ret.op = "select"
    /\ engine.weights = PartWeights
    /\ EligiblePositions # {}
    /\ ret.raised

C24_FallbackReturned ==
    /\ ret.op = "select"
    /\ engine.weights = PartWeights
    /\ EligiblePositions = {}
    /\ ReturnedCandidate

ParamNames == {"zpd_delta", "zpd_sigma", "cl_optimal", "cl_max", "beta_0"}

\* the configured defaults: 0.2, 0.15, 0.7, 0.9 and 1.0
ParamDefaults ==
    [zpd_delta |-> 2000, zpd_sigma |-> 1500, cl_optimal |-> 7000, cl_max |-> 9000,
     beta_0 |-> 10000]

\* C25: an engine constructed with an explicit 0 for zpd_delta, zpd_sigma,
\* cl_optimal, cl_max or beta_0 holds the configured default for it, as if the
\* argument had been omitted; a non-zero explicit value is held as given.
C25_ZeroIsOmitted ==
    (ret.op = "init" /\ ~ret.raised) =>
        \A name \in ParamNames :
            LET given == ret.params[1][name]
            IN  engine[name] = IF given = <<>> \/ given = <<0>>
                               THEN ParamDefaults[name] ELSE given[1]

\* C25's cases: an engine constructed with every parameter 0 holds the defaults,
\* and one constructed with non-zero values holds them
C25_Witness ==
    /\ ret.op = "init"
    /\ ~ret.raised
    /\ \A name \in ParamNames :
           ret.params[1][name] = <<0>> /\ engine[name] = ParamDefaults[name]

C25_GivenHeld ==
    /\ ret.op = "init"
    /\ ~ret.raised
    /\ \A name \in ParamNames :
           ret.params[1][name] # <<>> /\ engine[name] = ret.params[1][name][1]
                                       /\ engine[name] # ParamDefaults[name]

\* C26: the knowledge_gap score select_optimal_content reports is
\* 1 - mastery(content.topic_id), an absent mastery counting as 0: it is 1.0,
\* never 0.5, for a topic the student's knowledge_state does not hold.
C26_KnowledgeGapNeverNewTopic ==
    (ret.op = "select" /\ ret.scores # <<>>) =>
        /\ ret.scores["knowledge_gap"] = ONE - Mastery(catalog[ret.content].topic_id)
        /\ catalog[ret.content].topic_id \notin DOMAIN student.knowledge_state
               => ret.scores["knowledge_gap"] = ONE

\* C26's case: a content is returned whose topic the student has no mastery of,
\* and its reported knowledge_gap is 1.0
C26_Witness ==
    /\ ret.op = "select"
    /\ ret.scores # <<>>
    /\ catalog[ret.content].topic_id \notin DOMAIN student.knowledge_state
    /\ ret.scores["knowledge_gap"] = ONE

====
